---------------------------- MODULE Spec2Model ----------------------------
(***************************************************************************)
(* A model of the Figma design-file client: FigmaService.getImages (the    *)
(* thumbnail batcher) and FigmaService.getEnhancedAnalysis (the            *)
(* aggregator), with the HTTP requests they issue as messages in flight.   *)
(*                                                                         *)
(* A node ID is a sequence of characters (one-character strings), so that  *)
(* trim, startsWith and length are computed as the code computes them.     *)
(* An image mapping ({ [key: string]: string }) is a function from node    *)
(* IDs to URLs.                                                            *)
(***************************************************************************)
EXTENDS Integers, Sequences, FiniteSets, TLC

VARIABLES
    production,      \* isProduction(): decides FIGMA_API_BASE
    imagesState,     \* getImages' observable: "idle", "pending", "done", "error"
    caller,          \* who invoked getImages: "none", "direct", "analysis"
    imagesCalls,     \* number of getImages invocations so far
    nodeIds,         \* the nodeIds argument of getImages
    fileIdLen,       \* credentials.fileId.length
    batchStatus,     \* per batch: "pending", "skipped", "ok", "failed"
    batchImages,     \* per batch: the images of the value its observable emitted
    requests,        \* the image requests issued, in order: [batch, ids, urlLen]
    completionOrder, \* batch indices in the order their observables completed
    mergedImages,    \* the images of the value getImages emitted
    analysis,        \* getEnhancedAnalysis: "idle", "fetching", "thumbnails", "emitted", "error"
    fileReq,         \* the file request: [st, doc, version, status]
    stylesReq,       \* the styles request: [st, data]
    componentsReq,   \* the components request: [st, keys]
    result,          \* the value the analysis emitted
    emitCount,       \* number of values the analysis emitted
    analysisError,   \* the error the analysis delivered
    document,        \* fileData.document handed to an extraction function
    componentsApi,   \* the components the dedicated endpoint returned
    called,          \* the function called last, "none" before
    returned,        \* what that call returned
    passed,          \* what that call was given, when the argument is not state
    localStorage,    \* localStorage's item under STORAGE_KEY
    now,             \* the clock: new Date().getTime(), from the model's epoch
    restore,         \* App's connection restore: "none", "idle", "validating",
                     \* "analysing", "connected", "failed", "invalid"
    storedConnection,\* the stored connection attemptConnectionRestore read
    validation,      \* the restore's syncFileChanges call: [fetch, service, version, emitted]
    snapshot,        \* localStorage's item under 'figma-file-data'
    app,             \* the App component's fields
    subscriptions,   \* the observables App has subscribed to, in order
    view             \* the FigmaResults component's fields

vars == <<production, imagesState, caller, imagesCalls, nodeIds, fileIdLen,
          batchStatus, batchImages, requests, completionOrder,
          mergedImages, analysis, fileReq, stylesReq, componentsReq, result,
          emitCount, analysisError, document, componentsApi, called, returned,
          passed, localStorage, now, restore, storedConnection, validation,
          snapshot, app, subscriptions, view>>

imageVars == <<imagesState, caller, imagesCalls, nodeIds, fileIdLen,
               batchStatus, batchImages, requests,
               completionOrder, mergedImages>>

analysisVars == <<analysis, fileReq, stylesReq, componentsReq, result,
                  emitCount, analysisError>>

extractVars == <<document, componentsApi, called, returned>>

storeVars == <<passed, localStorage, now>>

appVars == <<restore, storedConnection, validation, snapshot>>

componentVars == <<app, subscriptions, view>>

\* What getImages, getEnhancedAnalysis and their requests leave alone.
outsideVars == <<extractVars, storeVars, appVars, componentVars>>

(***************************************************************************)
(* Bounds of the model.                                                    *)
(***************************************************************************)
\* Longest list of arbitrary (valid and invalid) IDs given to getImages.
MaxShort == 3
\* Long inputs hold up to this many full batches before their remainder.
MaxFullBatches == 1
\* Number of distinct URLs the image server may return for one node.
MaxVariant == 2
\* Most top-level children of the document root.
MaxTop == 2

(***************************************************************************)
(* Program constants.                                                      *)
(***************************************************************************)
BATCH_SIZE == 50
MAX_URL_LENGTH == 2048

(***************************************************************************)
(* Strings as character sequences.                                         *)
(***************************************************************************)
DigitChars == <<"0", "1", "2", "3", "4", "5", "6", "7", "8", "9">>

RECURSIVE Digits(_)
\* Number.prototype.toString(): the decimal digits of n.
Digits(n) ==
    IF n < 10 THEN <<DigitChars[n + 1]>>
    ELSE Digits(n \div 10) \o <<DigitChars[(n % 10) + 1]>>

IsWhitespace(c) == c \in {" ", "\t", "\n"}

RECURSIVE TrimStart(_)
TrimStart(s) ==
    IF s # <<>> /\ IsWhitespace(Head(s)) THEN TrimStart(Tail(s)) ELSE s

RECURSIVE TrimEnd(_)
TrimEnd(s) ==
    IF s # <<>> /\ IsWhitespace(s[Len(s)])
    THEN TrimEnd(SubSeq(s, 1, Len(s) - 1)) ELSE s

\* String.prototype.trim()
Trim(s) == TrimEnd(TrimStart(s))

\* String.prototype.startsWith(p)
StartsWith(s, p) == Len(s) >= Len(p) /\ SubSeq(s, 1, Len(p)) = p

\* A string is truthy when it is not empty.
Truthy(s) == s # <<>>

StrUndefined == <<"u", "n", "d", "e", "f", "i", "n", "e", "d">>
StrNull == <<"n", "u", "l", "l">>

(***************************************************************************)
(* Node IDs used as inputs.                                                *)
(***************************************************************************)
IdEmpty == <<>>
IdBlank == <<" ", " ">>
IdInstance == <<"I", "5", ":", "1">>
IdPadded == <<" ", "7", ":", "7">>
\* The i-th ID of a run of distinct IDs: "1:0", "1:1", ...
NodeId(i) == <<"1", ":">> \o Digits(i)

Run(n) == [i \in 1..n |-> NodeId(i - 1)]

ShortIds ==
    {IdEmpty, IdBlank, StrUndefined, StrNull, IdInstance, IdPadded, NodeId(0)}

RECURSIVE ListsUpTo(_, _)
\* All sequences over S of length at most n.
ListsUpTo(S, n) ==
    IF n = 0 THEN {<<>>}
    ELSE LET shorter == ListsUpTo(S, n - 1)
         IN  shorter \cup {Append(l, x) : l \in {s \in shorter : Len(s) = n - 1}, x \in S}

\* Remainders of a long input around the batch size.
Remainders == {0, 1, BATCH_SIZE \div 2, BATCH_SIZE - 1}

RunLengths == {b * BATCH_SIZE + r : b \in 0..MaxFullBatches, r \in Remainders}

\* What follows the run of distinct IDs in a long input: nothing, an instance
\* ID, or the run's first ID again.
LongSuffixes == {<<>>, <<IdInstance>>, <<NodeId(0)>>}

\* The node-ID lists a direct caller passes to getImages.
DirectInputs ==
    ListsUpTo(ShortIds, MaxShort)
    \cup {Run(n) \o suffix : n \in RunLengths, suffix \in LongSuffixes}


(***************************************************************************)
(* getImages: filtering, batching, URL length.                             *)
(***************************************************************************)
\* Mutant: instance IDs are let through.
IsValidNodeId_NoInstanceCheck(id) ==
    /\ Truthy(id)
    /\ Truthy(Trim(id))
    /\ id # StrUndefined
    /\ id # StrNull

\* Mutant: the placeholder 'null' is let through.
IsValidNodeId_NoNullCheck(id) ==
    /\ Truthy(id)
    /\ Truthy(Trim(id))
    /\ id # StrUndefined
    /\ ~StartsWith(id, <<"I">>)

\* The filter predicate of getImages.
IsValidNodeId(id) ==
    /\ Truthy(id)
    /\ Truthy(Trim(id))
    /\ id # StrUndefined
    /\ id # StrNull
    /\ ~StartsWith(id, <<"I">>)

ValidNodeIds(ids) == SelectSeq(ids, IsValidNodeId)

Min(a, b) == IF a < b THEN a ELSE b

\* Array.prototype.slice(from, to) with 0-based, end-exclusive indices.
Slice(s, from, to) == SubSeq(s, from + 1, Min(to, Len(s)))

\* Mutant: every slice runs one element too far.
Batches_Overlong(valid) ==
    LET count == (Len(valid) + BATCH_SIZE - 1) \div BATCH_SIZE
    IN  [b \in 1..count |->
            Slice(valid, (b - 1) * BATCH_SIZE, (b - 1) * BATCH_SIZE + BATCH_SIZE + 1)]

\* for (i = 0; i < valid.length; i += BATCH_SIZE) batches.push(valid.slice(i, i + BATCH_SIZE))
Batches(valid) ==
    LET count == (Len(valid) + BATCH_SIZE - 1) \div BATCH_SIZE
    IN  [b \in 1..count |->
            Slice(valid, (b - 1) * BATCH_SIZE, (b - 1) * BATCH_SIZE + BATCH_SIZE)]

RECURSIVE SumLen(_)
SumLen(ids) == IF ids = <<>> THEN 0 ELSE Len(Head(ids)) + SumLen(Tail(ids))

\* nodeIds.join(',').length
JoinLen(ids) == IF ids = <<>> THEN 0 ELSE SumLen(ids) + (Len(ids) - 1)

FIGMA_API_BASE == IF production THEN "https://api.figma.com/v1" ELSE "/api/figma"

\* The length of `${FIGMA_API_BASE}/images/${fileId}?ids=${ids}&format=png&scale=2`.
UrlLength(ids, flen) ==
    Len(FIGMA_API_BASE) + Len("/images/") + flen + Len("?ids=") + JoinLen(ids)
        + Len("&format=png&scale=2")

\* Mutant: a URL at the limit is rejected too.
ValidateUrlLength_Strict(len) == len < MAX_URL_LENGTH

ValidateUrlLength(len) == ~(len > MAX_URL_LENGTH)

(***************************************************************************)
(* Image mappings.                                                         *)
(***************************************************************************)
EmptyMap == [k \in {} |-> <<>>]

\* Object.assign(target, source)
Assign(target, source) ==
    [k \in (DOMAIN target) \cup (DOMAIN source) |->
        IF k \in DOMAIN source THEN source[k] ELSE target[k]]

RECURSIVE MergeResponses(_)
\* responses.forEach(response => Object.assign(mergedImages, response.images))
MergeResponses(responses) ==
    IF responses = <<>> THEN EmptyMap
    ELSE Assign(MergeResponses(SubSeq(responses, 1, Len(responses) - 1)),
                responses[Len(responses)])

\* Mutant: the batch values in the order in which the batches completed.
ResultsInCompletionOrder(images, order) == [i \in 1..Len(order) |-> images[order[i]]]

\* forkJoin hands the batch values over in the order of the batch requests,
\* whatever the order in which they completed.
ForkJoinResults(images, order) == images

\* Mutant: the error of a failed batch request gets through.
CatchBatchError_Rethrow == "errored"

\* What getImagesBatch's catchError turns a failed request into: the batch
\* emits { images: {} } ("failed"); an error that got through would be "errored".
CatchBatchError == "failed"

Range(s) == {s[i] : i \in DOMAIN s}

\* An image URL the server renders for a node: a non-empty string.
Url(id, v) == <<"u", "/">> \o id \o <<"/">> \o Digits(v)

\* The image mappings a server may answer a batch request with: every node,
\* only the first node, or no node of the batch rendered.
ServerResponses(ids) ==
    {[k \in S |-> Url(k, v)] : S \in {Range(ids), {ids[1]}, {}}, v \in 1..MaxVariant}

\* The state getImages leaves behind when called with ids for a file whose id
\* has flen characters: the batches' observables are created and subscribed.
GetImagesStart(ids, flen) ==
    LET valid == ValidNodeIds(ids)
        bs == Batches(valid)
        n == Len(bs)
        len(b) == UrlLength(bs[b], flen)
        Sendable(b) == ValidateUrlLength(len(b))
        Skipped(b) == ~Sendable(b)
        indices == [b \in 1..n |-> b]
        status == [b \in 1..n |-> IF Sendable(b) THEN "pending" ELSE "skipped"]
        images == [b \in 1..n |-> EmptyMap]
        order == SelectSeq(indices, Skipped)
        sent == SelectSeq(indices, Sendable)
        settled == \A b \in 1..n : status[b] # "pending"
    IN  [state |-> IF settled THEN "done" ELSE "pending",
         status |-> status,
         images |-> images,
         order |-> order,
         requests |-> [i \in 1..Len(sent) |->
                          [batch |-> sent[i], ids |-> bs[sent[i]], urlLen |-> len(sent[i])]],
         merged |-> IF valid # <<>> /\ settled
                    THEN MergeResponses(ForkJoinResults(images, order))
                    ELSE EmptyMap]

\* File-id lengths tried for an input: an ordinary one, and the two that put
\* the first batch's URL at the limit and one character past it.
FileIdLenShort == Len("test-file-id")

FileIdLens(ids) ==
    LET valid == ValidNodeIds(ids)
        first == IF valid = <<>> THEN <<>> ELSE Batches(valid)[1]
        zero == UrlLength(first, 0)
    IN  {FileIdLenShort} \cup {MAX_URL_LENGTH - zero, MAX_URL_LENGTH - zero + 1}

(***************************************************************************)
(* The document tree and what getEnhancedAnalysis extracts from it.        *)
(***************************************************************************)
MAX_FRAMES == 200

\* A FigmaNode; bbox says whether absoluteBoundingBox is present.
Node(id, type, bbox, children) ==
    [id |-> id, type |-> type, bbox |-> bbox, children |-> children]

\* The children of a node that has no children field.
NoChildren == <<[undefined |-> TRUE]>>

HasChildren(node) == ~(node.children # <<>> /\ "undefined" \in DOMAIN node.children[1])

\* if (node.children) node.children.forEach(...): the children that are
\* walked, none for a node without the field.
ChildrenOf(node) == IF HasChildren(node) THEN node.children ELSE <<>>

TopId(i) == <<"0", ":">> \o Digits(i)
KidId(i, j) == Digits(i) \o <<":">> \o Digits(j)

KidKinds == {"none", "frame", "bareFrame", "instance", "component"}

\* The children of the i-th top-level node.
Kids(i, kind) ==
    CASE kind = "none" -> <<>>
      [] kind = "frame" -> <<Node(KidId(i, 1), "FRAME", TRUE, <<>>)>>
      [] kind = "bareFrame" -> <<Node(KidId(i, 1), "FRAME", FALSE, <<>>)>>
      [] kind = "instance" -> <<Node(<<"I">> \o KidId(i, 1), "INSTANCE", TRUE, <<>>)>>
      [] kind = "component" -> <<Node(KidId(i, 1), "COMPONENT", FALSE, <<>>)>>

\* Top-level nodes: pages (CANVAS) with one kind of child, pages with an
\* empty id that are empty or hold a frame, and a frame placed directly under
\* the document root.
TopShapes ==
    {[type |-> "CANVAS", badId |-> FALSE, kid |-> k] : k \in KidKinds}
    \cup {[type |-> "CANVAS", badId |-> TRUE, kid |-> k] : k \in {"none", "frame"}}
    \cup {[type |-> "FRAME", badId |-> FALSE, kid |-> "none"]}

TopNode(i, shape) ==
    Node(IF shape.badId THEN IdEmpty ELSE TopId(i), shape.type,
         shape.type = "FRAME", Kids(i, shape.kid))

\* The documents a file response may carry.
Documents ==
    {Node(<<"0", ":", "0">>, "DOCUMENT", FALSE,
          [i \in 1..Len(shapes) |-> TopNode(i, shapes[i])]) :
        shapes \in ListsUpTo(TopShapes, MaxTop)}

KeyA == <<"k", "1">>

\* The component keys a components response may list (meta.components).
ComponentKeyLists == {<<>>, <<KeyA>>, <<KidId(1, 1)>>}

\* The empty string a thumbnail defaults to.
NoThumbnail == <<>>

\* A list is walked (forEach) as its first half, then its second half.
FirstHalf(s) == SubSeq(s, 1, Len(s) \div 2)

SecondHalf(s) == SubSeq(s, Len(s) \div 2 + 1, Len(s))

\* imageResponse.images[id] || ''
ImageOr(images, id) == IF id \in DOMAIN images THEN images[id] ELSE NoThumbnail

\* extractPages: the CANVAS children of the document root.
ExtractPages(doc) ==
    LET IsCanvas(n) == n.type = "CANVAS"
        pages == SelectSeq(ChildrenOf(doc), IsCanvas)
    IN  [i \in 1..Len(pages) |-> [id |-> pages[i].id, thumbnail |-> NoThumbnail]]

RECURSIVE ComponentsOfNode(_)
RECURSIVE ComponentsOfNodes(_)
\* Mutant: the children are walked before the node itself is looked at.
ComponentsOfNode_ChildrenFirst(node) ==
    ComponentsOfNodes(ChildrenOf(node))
    \o (IF node.type \in {"COMPONENT", "COMPONENT_SET"}
        THEN <<[key |-> node.id, id |-> node.id, thumbnail |-> NoThumbnail, from |-> "tree"]>>
        ELSE <<>>)

\* extractComponentsFromNodes: COMPONENT and COMPONENT_SET nodes, parent first.
ComponentsOfNode(node) ==
    (IF node.type \in {"COMPONENT", "COMPONENT_SET"}
     THEN <<[key |-> node.id, id |-> node.id, thumbnail |-> NoThumbnail, from |-> "tree"]>>
     ELSE <<>>) \o ComponentsOfNodes(ChildrenOf(node))

ComponentsOfNodes(nodes) ==
    IF nodes = <<>> THEN <<>>
    ELSE IF Len(nodes) = 1 THEN ComponentsOfNode(nodes[1])
    ELSE ComponentsOfNodes(FirstHalf(nodes)) \o ComponentsOfNodes(SecondHalf(nodes))

\* Mutant: no listed component is ever found.
ExistingComponent_None(components, c) == FALSE

\* components.find(c => c.key === nodeComponent.key), as a truth value.
ExistingComponent(components, c) ==
    \E i \in DOMAIN components : components[i].key = c.key

RECURSIVE MergeComponents(_, _)
\* nodeComponents.forEach: push the ones whose key is not yet listed.
MergeComponents(components, nodeComponents) ==
    IF nodeComponents = <<>> THEN components
    ELSE LET c == Head(nodeComponents)
             known == ExistingComponent(components, c)
         IN  MergeComponents(IF known THEN components ELSE Append(components, c),
                             Tail(nodeComponents))

\* extractComponents: data is componentsData, null or with meta.components.
ExtractComponents(data, doc) ==
    LET keys == data.keys
        fromApi == IF data.isNull THEN <<>>
                   ELSE [i \in 1..Len(keys) |->
                            [key |-> keys[i], id |-> keys[i],
                             thumbnail |-> NoThumbnail, from |-> "api"]]
    IN  MergeComponents(fromApi, ComponentsOfNode(doc))

\* Mutant: the traversal stops one frame late.
EnoughFrames_OneLate(frameIds) == Len(frameIds) > MAX_FRAMES

\* traverseNode's "stop if we already have enough frames".
EnoughFrames(frameIds) == Len(frameIds) >= MAX_FRAMES

RECURSIVE FramesOfNode(_, _)
RECURSIVE FramesOfNodes(_, _)
\* findAllFrames' traverseNode, with frameIds threaded through.
FramesOfNode(node, frameIds) ==
    IF EnoughFrames(frameIds) THEN frameIds
    ELSE LET f1 == IF node.type = "FRAME" /\ node.bbox
                   THEN Append(frameIds, node.id) ELSE frameIds
             f2 == IF node.type = "INSTANCE" /\ node.bbox
                   THEN Append(f1, node.id) ELSE f1
         IN  FramesOfNodes(ChildrenOf(node), f2)

FramesOfNodes(nodes, frameIds) ==
    IF nodes = <<>> THEN frameIds
    ELSE IF Len(nodes) = 1 THEN FramesOfNode(nodes[1], frameIds)
    ELSE LET walked == FramesOfNodes(FirstHalf(nodes), frameIds)
         IN  IF EnoughFrames(walked) THEN walked
             ELSE FramesOfNodes(SecondHalf(nodes), walked)

FindAllFrames(doc) == FramesOfNodes(ChildrenOf(doc), <<>>)

\* Mutant: duplicates are kept.
Dedup_None(ids) == ids

\* filter((id, index, array) => array.indexOf(id) === index)
Dedup(ids) ==
    LET firstAt(i) == \A j \in 1..(i - 1) : ids[j] # ids[i]
        keep == SelectSeq([i \in 1..Len(ids) |-> i], firstAt)
    IN  [k \in 1..Len(keep) |-> ids[keep[k]]]

\* Mutant: nothing is filtered out.
IsCollectable_Any(id) == TRUE

\* The first filter of allNodeIds in getEnhancedAnalysis.
IsCollectable(id) ==
    /\ Truthy(id)
    /\ Truthy(Trim(id))
    /\ id # StrUndefined
    /\ id # StrNull

\* c.id || c.key
ComponentNodeId(c) == IF Truthy(c.id) THEN c.id ELSE c.key

\* allNodeIds: pages, then components, then frames; filtered and deduplicated.
AllNodeIds(pages, components, frames) ==
    LET pageIds == [i \in 1..Len(pages) |-> pages[i].id]
        componentIds == [i \in 1..Len(components) |-> ComponentNodeId(components[i])]
    IN  Dedup(SelectSeq(pageIds \o componentIds \o frames, IsCollectable))

PopulatePageThumbnails(pages, images) ==
    [i \in 1..Len(pages) |-> [pages[i] EXCEPT !.thumbnail = ImageOr(images, pages[i].id)]]

PopulateComponentThumbnails(components, images) ==
    [i \in 1..Len(components) |->
        [components[i] EXCEPT !.thumbnail = ImageOr(images, ComponentNodeId(components[i]))]]

\* Mutant: the bounding box is not looked at.
IsArtboardNode_AnyBox(node) == node.type \in {"FRAME", "INSTANCE"}

\* The test of extractAllArtboards' traverse.
IsArtboardNode(node) == node.type \in {"FRAME", "INSTANCE"} /\ node.bbox

RECURSIVE ArtboardsOfNode(_, _)
RECURSIVE ArtboardsOfNodes(_, _)
\* extractAllArtboards' traverse: FRAME and INSTANCE nodes with a bounding box.
ArtboardsOfNode(node, images) ==
    (IF IsArtboardNode(node)
     THEN <<[id |-> node.id, imageUrl |-> ImageOr(images, node.id)]>>
     ELSE <<>>) \o ArtboardsOfNodes(ChildrenOf(node), images)

ArtboardsOfNodes(nodes, images) ==
    IF nodes = <<>> THEN <<>>
    ELSE IF Len(nodes) = 1 THEN ArtboardsOfNode(nodes[1], images)
    ELSE ArtboardsOfNodes(FirstHalf(nodes), images)
         \o ArtboardsOfNodes(SecondHalf(nodes), images)

ExtractAllArtboards(doc, images) == ArtboardsOfNodes(ChildrenOf(doc), images)

(***************************************************************************)
(* Initial state.                                                          *)
(***************************************************************************)
\* A top-level request: st is "idle", "pending", "settled" or "cancelled";
\* http is "none", "ok" or "failed"; data is what its observable emitted.
NoData == [isNull |-> TRUE, keys |-> <<>>, doc |-> Node(<<>>, "NONE", FALSE, <<>>)]

NoRequest == [st |-> "idle", http |-> "none", data |-> NoData]

Pending == [st |-> "pending", http |-> "none", data |-> NoData]

\* No getImages call and no analysis is under way.
ServiceIdle ==
    /\ imagesState = "idle"
    /\ caller = "none"
    /\ imagesCalls = 0
    /\ nodeIds = <<>>
    /\ fileIdLen = 0
    /\ batchStatus = <<>>
    /\ batchImages = <<>>
    /\ requests = <<>>
    /\ completionOrder = <<>>
    /\ mergedImages = EmptyMap
    /\ analysis = "idle"
    /\ fileReq = NoRequest
    /\ stylesReq = NoRequest
    /\ componentsReq = NoRequest
    /\ result = [kind |-> "none"]
    /\ emitCount = 0
    /\ analysisError = [kind |-> "none"]

\* No extraction function has been called.
ExtractIdle ==
    /\ document = NoData.doc
    /\ componentsApi = NoData
    /\ called = "none"
    /\ returned = <<>>

\* localStorage holds no item, and nothing was passed.
NoItem == [present |-> FALSE, value |-> <<>>]

StoreIdle ==
    /\ passed = <<>>
    /\ localStorage = NoItem
    /\ now = 0

\* The application has not started, and no analysis snapshot is stored.
NoValidation == [fetch |-> "none"]

AppIdle ==
    /\ restore = "none"
    /\ storedConnection = <<>>
    /\ validation = NoValidation
    /\ snapshot = NoItem
    /\ app = <<>>
    /\ subscriptions = <<>>
    /\ view = <<>>

Init ==
    /\ production \in BOOLEAN
    /\ ServiceIdle
    /\ ExtractIdle
    /\ StoreIdle
    /\ AppIdle

(***************************************************************************)
(* getImages called directly.                                              *)
(***************************************************************************)
CallGetImages ==
    /\ analysis = "idle"
    /\ imagesState = "idle"
    /\ \E ids \in DirectInputs :
         \E flen \in FileIdLens(ids) :
            LET start == GetImagesStart(ids, flen)
            IN  /\ nodeIds' = ids
                /\ fileIdLen' = flen
                /\ caller' = "direct"
                /\ imagesCalls' = imagesCalls + 1
                /\ imagesState' = start.state
                /\ batchStatus' = start.status
                /\ batchImages' = start.images
                /\ completionOrder' = start.order
                /\ requests' = start.requests
                /\ mergedImages' = start.merged
    /\ UNCHANGED <<production, outsideVars, analysisVars>>


(***************************************************************************)
(* The value the analysis emits.                                           *)
(***************************************************************************)
AnalysisResult(doc, componentsData, images, withImages) ==
    LET pages == ExtractPages(doc)
        components == ExtractComponents(componentsData, doc)
    IN  [kind |-> "value",
         pages |-> IF withImages THEN PopulatePageThumbnails(pages, images) ELSE pages,
         components |-> IF withImages THEN PopulateComponentThumbnails(components, images)
                        ELSE components,
         artboards |-> ExtractAllArtboards(doc, images)]

(***************************************************************************)
(* handleError: the error a failed fetch delivers.  A raw error is an      *)
(* HttpErrorResponse (status, url, error.message of the response body, ""  *)
(* when the body has none) or a value thrown inside the pipe, which has    *)
(* neither status nor url.                                                 *)
(***************************************************************************)
HttpError(status, urlLen, serverMessage) ==
    [kind |-> "http", status |-> status, urlLen |-> urlLen,
     serverMessage |-> serverMessage]

ThrownError == [kind |-> "thrown"]

NoHttpError == [kind |-> "none"]

MessageDefault == "An error occurred while connecting to Figma"
MessageUrlTooLongRetry == "Request URL too long. Retrying with smaller batches..."
MessageNetwork ==
    "Network error: Unable to connect to Figma API. Check CORS configuration."
MessageUrlTooLong ==
    "Request URL too long. The request will be split into smaller batches."
MessageToken == "Invalid access token. Please check your Figma access token."
MessageDenied ==
    "Access denied. Please ensure you have permission to access this file."
MessageNotFound == "File not found. Please check your Figma file ID."

\* handleError answering every error with the default message.
HandleError_DefaultMessage(error) ==
    [kind |-> "error", message |-> MessageDefault,
     status |-> IF error.kind = "http" THEN error.status ELSE 0]

HandleError(error) ==
    LET hasStatus == error.kind = "http"
        errorMessage ==
            IF hasStatus /\ error.status = 0
            THEN (IF error.urlLen > 2048 THEN MessageUrlTooLongRetry ELSE MessageNetwork)
            ELSE IF hasStatus /\ error.status = 414 THEN MessageUrlTooLong
            ELSE IF hasStatus /\ error.status = 401 THEN MessageToken
            ELSE IF hasStatus /\ error.status = 403 THEN MessageDenied
            ELSE IF hasStatus /\ error.status = 404 THEN MessageNotFound
            ELSE IF hasStatus /\ error.serverMessage # "" THEN error.serverMessage
            ELSE MessageDefault
    IN  [kind |-> "error", message |-> errorMessage,
         status |-> IF hasStatus THEN error.status ELSE 0]

\* The map() after getImages inside the switchMap of getEnhancedAnalysis:
\* runs when getImages emits (images) or fails.
AfterImages(state, images) ==
    IF caller' = "analysis" /\ state = "done"
    THEN /\ analysis' = "emitted"
         /\ result' = AnalysisResult(fileReq'.data.doc, componentsReq'.data, images, TRUE)
         /\ emitCount' = emitCount + 1
         /\ UNCHANGED analysisError
    ELSE IF caller' = "analysis" /\ state = "error"
    THEN /\ analysis' = "error"
         /\ analysisError' = HandleError(ThrownError)
         /\ UNCHANGED <<result, emitCount>>
    ELSE UNCHANGED <<analysis, result, emitCount, analysisError>>

(***************************************************************************)
(* An image request completes.                                             *)
(***************************************************************************)
\* The batch's observable settles with outcome st and emits images; forkJoin
\* emits once every batch has, and getImages merges.
SettleBatch(b, st, images) ==
    LET status == [batchStatus EXCEPT ![b] = st]
        emitted == [batchImages EXCEPT ![b] = images]
        order == Append(completionOrder, b)
        errored == \E i \in DOMAIN status : status[i] = "errored"
        settled == \A i \in DOMAIN status : status[i] # "pending"
        state == IF errored THEN "error" ELSE IF settled THEN "done" ELSE "pending"
        merged == IF state = "done" THEN MergeResponses(ForkJoinResults(emitted, order))
                  ELSE EmptyMap
    IN  /\ batchStatus' = status
        /\ batchImages' = emitted
        /\ completionOrder' = order
        /\ imagesState' = state
        /\ mergedImages' = merged
        /\ UNCHANGED <<production, outsideVars, caller, imagesCalls, nodeIds, fileIdLen, requests,
                       fileReq, stylesReq, componentsReq>>
        /\ AfterImages(state, merged)

BatchSucceeds ==
    /\ imagesState = "pending"
    /\ \E r \in DOMAIN requests :
         /\ batchStatus[requests[r].batch] = "pending"
         /\ \E images \in ServerResponses(requests[r].ids) :
              SettleBatch(requests[r].batch, "ok", images)

BatchFails ==
    /\ imagesState = "pending"
    /\ \E r \in DOMAIN requests :
         /\ batchStatus[requests[r].batch] = "pending"
         /\ SettleBatch(requests[r].batch, CatchBatchError, EmptyMap)

(***************************************************************************)
(* getEnhancedAnalysis.                                                    *)
(***************************************************************************)
\* Mutant: getFileStyles lets its error through.
CatchStylesError_Rethrow == "error"

\* What the catchError of each top-level fetch does with a failed request:
\* getFileData rethrows through handleError, getFileStyles and
\* getFileComponents emit null.
CatchFileError == "error"
CatchStylesError == "null"
CatchComponentsError == "null"

Failed(onError) ==
    [st |-> "settled", http |-> "failed", data |-> NoData, thrown |-> onError = "error"]

\* The failed file request, with the error its http.get or map produced.
FailedWith(onError, error) ==
    [st |-> "settled", http |-> "failed", data |-> NoData,
     thrown |-> onError = "error", error |-> error]

Threw(req) == req.st = "settled" /\ req.http = "failed" /\ req.thrown

Cancel(req) == IF req.st = "pending" THEN [req EXCEPT !.st = "cancelled"] ELSE req

\* Mutant: the extraction starts as soon as the file data is there.
TopLevelReady_FileOnly(f, s, c) == f.st = "settled"

\* forkJoin emits once each of its three sources has emitted and completed.
TopLevelReady(f, s, c) == f.st = "settled" /\ s.st = "settled" /\ c.st = "settled"

\* forkJoin({fileData, stylesData, componentsData}) and the switchMap after
\* it, run with the requests as they are after one of them settled.
JoinTopLevel(f, s, c, error) ==
    IF Threw(f) \/ Threw(s) \/ Threw(c)
    THEN /\ fileReq' = Cancel(f)
         /\ stylesReq' = Cancel(s)
         /\ componentsReq' = Cancel(c)
         /\ analysis' = "error"
         /\ analysisError' = HandleError(error)
         /\ UNCHANGED <<result, emitCount, imageVars>>
    ELSE /\ fileReq' = f
         /\ stylesReq' = s
         /\ componentsReq' = c
         /\ IF TopLevelReady(f, s, c)
            THEN LET doc == f.data.doc
                     pages == ExtractPages(doc)
                     components == ExtractComponents(c.data, doc)
                     allNodeIds == AllNodeIds(pages, components, FindAllFrames(doc))
                 IN  IF Len(allNodeIds) > 0
                     THEN LET start == GetImagesStart(allNodeIds, fileIdLen)
                          IN  /\ nodeIds' = allNodeIds
                              /\ caller' = "analysis"
                              /\ imagesCalls' = imagesCalls + 1
                              /\ imagesState' = start.state
                              /\ batchStatus' = start.status
                              /\ batchImages' = start.images
                              /\ completionOrder' = start.order
                              /\ requests' = start.requests
                              /\ mergedImages' = start.merged
                              /\ UNCHANGED fileIdLen
                              /\ IF start.state = "done"
                                 THEN AfterImages("done", start.merged)
                                 ELSE /\ analysis' = "thumbnails"
                                      /\ UNCHANGED <<result, emitCount, analysisError>>
                     ELSE /\ analysis' = "emitted"
                          /\ result' = AnalysisResult(doc, c.data, EmptyMap, FALSE)
                          /\ emitCount' = emitCount + 1
                          /\ UNCHANGED <<analysisError, imageVars>>
            ELSE UNCHANGED <<analysis, result, emitCount, analysisError, imageVars>>

\* File-id lengths of the credentials given to the analysis: an ordinary one
\* and one so long that every image URL exceeds the limit.
AnalysisFileIdLens == {FileIdLenShort, MAX_URL_LENGTH}

\* getEnhancedAnalysis(credentials) is subscribed: three requests go out.
CallGetEnhancedAnalysis ==
    /\ analysis = "idle"
    /\ imagesState = "idle"
    /\ \E flen \in AnalysisFileIdLens : fileIdLen' = flen
    /\ analysis' = "fetching"
    /\ fileReq' = Pending
    /\ stylesReq' = Pending
    /\ componentsReq' = Pending
    /\ UNCHANGED <<production, outsideVars, imagesState, caller, imagesCalls, nodeIds, batchStatus,
                   batchImages, requests, completionOrder, mergedImages, result,
                   emitCount, analysisError>>

\* HTTP statuses a failed request may carry.
ErrorStatuses == {0, 404}

\* The length of `${FIGMA_API_BASE}/files/${fileId}`.
FileUrlLength(flen) == Len(FIGMA_API_BASE) + Len("/files/") + flen

\* The errors the file request may end with: a response with an error status,
\* with or without a message in its body, or a value thrown in the pipe.
FileErrors(flen) ==
    {HttpError(status, FileUrlLength(flen), message) :
        status \in ErrorStatuses \cup {401, 403, 414, 500},
        message \in {"", "Internal error"}}
    \cup {ThrownError}

Settled(data) == [st |-> "settled", http |-> "ok", data |-> data, thrown |-> FALSE]

FileResponds ==
    /\ analysis = "fetching"
    /\ fileReq.st = "pending"
    /\ \E doc \in Documents :
         JoinTopLevel(Settled([NoData EXCEPT !.isNull = FALSE, !.doc = doc]),
                      stylesReq, componentsReq, NoHttpError)
    /\ UNCHANGED <<production, outsideVars>>

FileFails ==
    /\ analysis = "fetching"
    /\ fileReq.st = "pending"
    /\ \E error \in FileErrors(fileIdLen) :
         JoinTopLevel(FailedWith(CatchFileError, error), stylesReq, componentsReq, error)
    /\ UNCHANGED <<production, outsideVars>>

StylesResponds ==
    /\ analysis = "fetching"
    /\ stylesReq.st = "pending"
    /\ JoinTopLevel(fileReq, Settled([NoData EXCEPT !.isNull = FALSE]), componentsReq,
                    NoHttpError)
    /\ UNCHANGED <<production, outsideVars>>

StylesFails ==
    /\ analysis = "fetching"
    /\ stylesReq.st = "pending"
    /\ \E status \in ErrorStatuses :
         JoinTopLevel(fileReq, Failed(CatchStylesError), componentsReq,
                      HttpError(status, 0, ""))
    /\ UNCHANGED <<production, outsideVars>>

ComponentsResponds ==
    /\ analysis = "fetching"
    /\ componentsReq.st = "pending"
    /\ \E keys \in ComponentKeyLists :
         JoinTopLevel(fileReq, stylesReq,
                      Settled([NoData EXCEPT !.isNull = FALSE, !.keys = keys]),
                      NoHttpError)
    /\ UNCHANGED <<production, outsideVars>>

ComponentsFails ==
    /\ analysis = "fetching"
    /\ componentsReq.st = "pending"
    /\ \E status \in ErrorStatuses :
         JoinTopLevel(fileReq, stylesReq, Failed(CatchComponentsError),
                      HttpError(status, 0, ""))
    /\ UNCHANGED <<production, outsideVars>>

Next ==
    \/ CallGetImages
    \/ BatchSucceeds
    \/ BatchFails
    \/ CallGetEnhancedAnalysis
    \/ FileResponds
    \/ FileFails
    \/ StylesResponds
    \/ StylesFails
    \/ ComponentsResponds
    \/ ComponentsFails

Spec == Init /\ [][Next]_vars


(***************************************************************************)
(* Vocabulary of the properties, written from the statements checked.      *)
(***************************************************************************)
\* A node ID that is non-empty, not whitespace-only, not 'undefined' or
\* 'null', and does not start with 'I'.
Acceptable(id) ==
    /\ Len(id) > 0
    /\ \E i \in DOMAIN id : id[i] # " "
    /\ id # <<"u", "n", "d", "e", "f", "i", "n", "e", "d">>
    /\ id # <<"n", "u", "l", "l">>
    /\ id[1] # "I"

AcceptableIds == SelectSeq(nodeIds, Acceptable)

CeilDiv(n, d) == IF n % d = 0 THEN n \div d ELSE (n \div d) + 1

RECURSIVE Flatten(_)
Flatten(seqs) == IF seqs = <<>> THEN <<>> ELSE Head(seqs) \o Flatten(Tail(seqs))

\* Every ID sent in an image request, in the order sent.
RequestedIds == Flatten([r \in DOMAIN requests |-> requests[r].ids])

NoDuplicates(s) == Cardinality({s[i] : i \in DOMAIN s}) = Len(s)

\* The b-th group of 50 of the acceptable input IDs.
ExpectedBatch(b) ==
    SubSeq(AcceptableIds, 50 * (b - 1) + 1, Min(50 * b, Len(AcceptableIds)))

NoBatchSkipped == \A b \in DOMAIN batchStatus : batchStatus[b] # "skipped"

GetImagesCalled == imagesState # "idle"

(***************************************************************************)
(* C1                                                                      *)
(***************************************************************************)
\* C1 as stated: an input with N valid node IDs yields exactly ceil(N/50)
\* image requests, each of at most 50 IDs and all but the last of exactly 50.
C1_RequestCountAsStated ==
    GetImagesCalled =>
        /\ Len(requests) = CeilDiv(Len(AcceptableIds), 50)
        /\ \A r \in DOMAIN requests :
              /\ Len(requests[r].ids) <= 50
              /\ r < Len(requests) => Len(requests[r].ids) = 50

\* C1 amended: N valid node IDs are split into exactly ceil(N/50) batches;
\* every request carries the IDs of one batch, at most 50 and exactly 50
\* unless it is the last batch; when no batch is skipped for its URL length
\* exactly ceil(N/50) requests are issued (50 -> 1, 51 -> 2, 75 -> 2).
C1_RequestCount ==
    GetImagesCalled =>
        LET count == CeilDiv(Len(AcceptableIds), 50)
        IN  /\ Len(batchStatus) = count
            /\ Len(requests) <= count
            /\ NoBatchSkipped => Len(requests) = count
            /\ \A r \in DOMAIN requests :
                  /\ requests[r].batch \in 1..count
                  /\ Len(requests[r].ids) <= 50
                  /\ requests[r].batch < count => Len(requests[r].ids) = 50
                  /\ requests[r].batch = count =>
                        Len(requests[r].ids) = Len(AcceptableIds) - 50 * (count - 1)
            /\ Len(AcceptableIds) = 50 /\ NoBatchSkipped => Len(requests) = 1
            /\ Len(AcceptableIds) \in {51, 75} /\ NoBatchSkipped => Len(requests) = 2

\* 51 valid IDs were given and two requests, of 50 and of 1, went out.
C1_Witness ==
    /\ caller = "direct"
    /\ Len(AcceptableIds) = 51
    /\ Len(requests) = 2
    /\ Len(requests[1].ids) = 50
    /\ Len(requests[2].ids) = 1

(***************************************************************************)
(* C2                                                                      *)
(***************************************************************************)
\* C2: when the node-ID list is empty, or empty after filtering, getImages
\* completes with the empty mapping and no image request is issued.
C2_EmptyInput ==
    (GetImagesCalled /\ AcceptableIds = <<>>) =>
        /\ imagesState = "done"
        /\ mergedImages = EmptyMap
        /\ requests = <<>>
        /\ batchStatus = <<>>

\* A list of three IDs, none of them valid, was given and getImages is done.
C2_Witness ==
    /\ caller = "direct"
    /\ Len(nodeIds) = 3
    /\ AcceptableIds = <<>>
    /\ \E i \in DOMAIN nodeIds : nodeIds[i] # <<>> /\ nodeIds[i][1] = "I"
    /\ imagesState = "done"

(***************************************************************************)
(* C3                                                                      *)
(***************************************************************************)
\* C3 as stated: the IDs sent in image requests are exactly the acceptable
\* input IDs, in their original order.
C3_RequestedIdsAsStated ==
    GetImagesCalled => RequestedIds = AcceptableIds

\* C3 amended: no filtered-out ID is ever sent; the IDs sent are, in their
\* original order, the acceptable input IDs of the batches that are not
\* skipped for their URL length - all of them when none is skipped.
C3_RequestedIds ==
    GetImagesCalled =>
        /\ \A r \in DOMAIN requests :
              \A i \in DOMAIN requests[r].ids : Acceptable(requests[r].ids[i])
        /\ \A r \in DOMAIN requests :
              /\ requests[r].ids = ExpectedBatch(requests[r].batch)
              /\ \A q \in DOMAIN requests : q < r => requests[q].batch < requests[r].batch
        /\ NoBatchSkipped => RequestedIds = AcceptableIds

\* Valid IDs around an invalid one: the two valid ones were sent, in order.
C3_Witness ==
    /\ caller = "direct"
    /\ Len(nodeIds) = 3
    /\ Acceptable(nodeIds[1]) /\ ~Acceptable(nodeIds[2]) /\ Acceptable(nodeIds[3])
    /\ nodeIds[1] # nodeIds[3]
    /\ RequestedIds = <<nodeIds[1], nodeIds[3]>>


(***************************************************************************)
(* C4                                                                      *)
(***************************************************************************)
\* C4 as stated: getImages deduplicates its input, so no node ID is sent
\* twice and the batches are pairwise disjoint.
C4_DeduplicatedAsStated ==
    GetImagesCalled => NoDuplicates(RequestedIds)

\* The IDs getEnhancedAnalysis gathers before it filters and deduplicates:
\* pages, then components, then frames.
GatheredIds ==
    LET doc == fileReq.data.doc
        pages == ExtractPages(doc)
        components == ExtractComponents(componentsReq.data, doc)
    IN  [i \in 1..Len(pages) |-> pages[i].id]
        \o [i \in 1..Len(components) |-> components[i].id]
        \o FindAllFrames(doc)

\* C4 amended: getImages itself does not deduplicate - it sends every valid
\* ID as often as the input holds it, so its batches are pairwise disjoint
\* when the valid input IDs are distinct; the deduplication (first occurrence
\* kept) is done by getEnhancedAnalysis on the IDs it gathers, so within an
\* enhanced analysis no ID is sent twice.
C4_Deduplicated ==
    /\ GetImagesCalled /\ NoDuplicates(AcceptableIds) => NoDuplicates(RequestedIds)
    /\ GetImagesCalled /\ NoBatchSkipped => RequestedIds = AcceptableIds
    /\ caller = "analysis" => NoDuplicates(nodeIds) /\ NoDuplicates(RequestedIds)

\* An analysis gathered the same ID twice (a component key that is also a
\* frame's id) and sent it once.
C4_Witness ==
    /\ caller = "analysis"
    /\ ~NoDuplicates(GatheredIds)
    /\ \E i \in DOMAIN GatheredIds :
          /\ \E j \in DOMAIN GatheredIds : i # j /\ GatheredIds[i] = GatheredIds[j]
          /\ \E r \in DOMAIN RequestedIds : RequestedIds[r] = GatheredIds[i]

(***************************************************************************)
(* C5                                                                      *)
(***************************************************************************)
OkBatches == {b \in DOMAIN batchStatus : batchStatus[b] = "ok"}

\* The batches that returned an image for node k.
OkBatchesWith(k) == {b \in OkBatches : k \in DOMAIN batchImages[b]}

\* C5: a failed batch request never fails getImages: once every batch has
\* settled getImages has completed with a value; a failed batch contributes
\* nothing, and every node for which a succeeded batch returned an image has
\* an image in the result, the one that batch returned (the one the last
\* such batch returned when the node was requested in several batches).
C5_BatchFailureAbsorbed ==
    /\ imagesState \in {"idle", "pending", "done"}
    /\ (GetImagesCalled /\ \A b \in DOMAIN batchStatus : batchStatus[b] # "pending")
          => imagesState = "done"
    /\ \A b \in DOMAIN batchStatus : batchStatus[b] = "failed" => batchImages[b] = EmptyMap
    /\ imagesState = "done" =>
          /\ DOMAIN mergedImages = UNION {DOMAIN batchImages[b] : b \in OkBatches}
          /\ \A b \in OkBatches : \A k \in DOMAIN batchImages[b] :
                /\ k \in DOMAIN mergedImages
                /\ \E j \in OkBatchesWith(k) : mergedImages[k] = batchImages[j][k]
                /\ OkBatchesWith(k) = {b} => mergedImages[k] = batchImages[b][k]

\* One batch failed, another returned 50 images, and getImages completed
\* with those 50.
C5_Witness ==
    /\ imagesState = "done"
    /\ \E b \in DOMAIN batchStatus : batchStatus[b] = "failed"
    /\ \E b \in OkBatches : Cardinality(DOMAIN batchImages[b]) = 50
    /\ Cardinality(DOMAIN mergedImages) = 50

(***************************************************************************)
(* C6                                                                      *)
(***************************************************************************)
\* The URL length of batch b of the current getImages call.
BatchUrlLength(b) == UrlLength(ExpectedBatch(b), fileIdLen)

RequestsFor(b) == {r \in DOMAIN requests : requests[r].batch = b}

\* C6: a batch whose URL is longer than 2048 characters is never requested,
\* contributes no image and does not fail getImages; a batch whose URL has
\* 2048 characters or fewer is requested.
C6_UrlLengthLimit ==
    GetImagesCalled =>
        \A b \in DOMAIN batchStatus :
            LET length == BatchUrlLength(b)
            IN  /\ length > 2048 =>
                      /\ RequestsFor(b) = {}
                      /\ batchImages[b] = EmptyMap
                      /\ imagesState # "error"
                /\ length <= 2048 =>
                      /\ Cardinality(RequestsFor(b)) = 1
                      /\ \A r \in RequestsFor(b) : requests[r].urlLen = length

\* A first batch with a URL of exactly 2048 characters was requested and
\* returned its images, a second, longer one was skipped, and getImages
\* completed with the first batch's images.
C6_Witness ==
    /\ imagesState = "done"
    /\ Len(batchStatus) = 2
    /\ BatchUrlLength(1) = 2048
    /\ batchStatus[1] = "ok"
    /\ BatchUrlLength(2) > 2048
    /\ batchStatus[2] = "skipped"
    /\ Len(requests) = 1
    /\ Cardinality(DOMAIN mergedImages) = 50

(***************************************************************************)
(* C7                                                                      *)
(***************************************************************************)
\* The batches whose emitted value holds an image for node k.
BatchesWith(k) == {b \in DOMAIN batchImages : k \in DOMAIN batchImages[b]}

Last(S) == CHOOSE b \in S : \A c \in S : c <= b

\* C7: the merged mapping is determined by what each batch returned, not by
\* the order in which the batches completed: it holds, for every node some
\* batch returned, the image of the last batch in request order that
\* returned one; and the value the analysis emits is determined by the file
\* and components data and that mapping.
C7_OrderIndependent ==
    /\ imagesState = "done" =>
          /\ DOMAIN mergedImages = UNION {DOMAIN batchImages[b] : b \in DOMAIN batchImages}
          /\ \A k \in DOMAIN mergedImages :
                mergedImages[k] = batchImages[Last(BatchesWith(k))][k]
    /\ analysis = "emitted" =>
          result = AnalysisResult(fileReq.data.doc, componentsReq.data, mergedImages,
                                  imagesCalls > 0)

\* The second batch completed before the first, both returned an image for
\* the same node, with different URLs, and getImages has merged them.
C7_Witness ==
    /\ imagesState = "done"
    /\ completionOrder = <<2, 1>>
    /\ \E k \in DOMAIN batchImages[1] :
          /\ k \in DOMAIN batchImages[2]
          /\ batchImages[1][k] # batchImages[2][k]


(***************************************************************************)
(* C8                                                                      *)
(***************************************************************************)
TopLevelRequests == <<fileReq, stylesReq, componentsReq>>

TopLevelSettled == \A i \in 1..3 : TopLevelRequests[i].st = "settled"

\* C8 as stated: when the file, the styles or the components request fails,
\* no result value is emitted.
C8_FailurePropagatesAsStated ==
    (\E i \in 1..3 : TopLevelRequests[i].http = "failed") =>
        /\ emitCount = 0
        /\ result.kind = "none"
        /\ analysis # "emitted"

\* C8 amended: a failure of the file request propagates and fails the whole
\* analysis, and no result is emitted; a failure of the styles or of the
\* components request does not: that fetch yields null instead, the
\* analysis goes on to its thumbnails and result, and the analysis fails
\* only when the file request failed.
C8_FailurePropagates ==
    /\ fileReq.http = "failed" =>
          /\ analysis = "error"
          /\ analysisError.kind = "error"
          /\ emitCount = 0
          /\ result.kind = "none"
    /\ analysis = "error" => fileReq.http = "failed"
    /\ analysisError.kind = "error" <=> analysis = "error"
    /\ \A i \in 2..3 :
          TopLevelRequests[i].http = "failed" =>
              /\ TopLevelRequests[i].st = "settled"
              /\ TopLevelRequests[i].data.isNull
              /\ (TopLevelSettled /\ fileReq.http = "ok") =>
                    analysis \in {"thumbnails", "emitted"}

\* The styles and the components request both failed and the analysis
\* emitted a result with a page in it.
C8_Witness ==
    /\ analysis = "emitted"
    /\ stylesReq.http = "failed"
    /\ componentsReq.http = "failed"
    /\ result.kind = "value"
    /\ Len(result.pages) > 0

(***************************************************************************)
(* C9                                                                      *)
(***************************************************************************)
BatchesSettled == \A b \in DOMAIN batchStatus : batchStatus[b] \in {"ok", "failed", "skipped"}

\* C9 as stated: the analysis delivers a result or an error only when every
\* constituent request has settled, and at most one result.
C9_WaitsForAllAsStated ==
    /\ emitCount <= 1
    /\ analysis \in {"emitted", "error"} => TopLevelSettled /\ BatchesSettled

\* C9 amended: the analysis emits its result only after all three top-level
\* requests have settled and then all image requests have settled; it emits
\* at most one result; while a constituent request has not settled, and when
\* one was abandoned unsettled, no result is emitted - but an error is
\* delivered as soon as the file request fails, whether or not the styles
\* and components requests have settled.
C9_WaitsForAll ==
    /\ emitCount <= 1
    /\ emitCount = 1 <=> analysis = "emitted"
    /\ result.kind = "value" <=> analysis = "emitted"
    /\ analysis = "emitted" =>
          /\ TopLevelSettled
          /\ BatchesSettled
          /\ imagesCalls > 0 => imagesState = "done"
    /\ caller = "analysis" => TopLevelSettled
    /\ analysis = "thumbnails" =>
          /\ imagesState = "pending"
          /\ \E b \in DOMAIN batchStatus : batchStatus[b] = "pending"
    /\ analysis = "fetching" => ~TopLevelSettled
    /\ (\E i \in 1..3 : TopLevelRequests[i].st = "cancelled") =>
          /\ emitCount = 0
          /\ analysis = "error"
    /\ analysis = "error" => fileReq.st = "settled" /\ fileReq.http = "failed"

\* An analysis emitted its result after its image request had returned.
C9_Witness ==
    /\ analysis = "emitted"
    /\ caller = "analysis"
    /\ Len(requests) = 1
    /\ batchStatus = <<"ok">>
    /\ emitCount = 1

(***************************************************************************)
(* C10                                                                     *)
(***************************************************************************)
\* An ID the analysis keeps: non-empty, not blank, not 'undefined' or 'null'.
Collectable(id) ==
    /\ Len(id) > 0
    /\ \E i \in DOMAIN id : id[i] # " "
    /\ id # <<"u", "n", "d", "e", "f", "i", "n", "e", "d">>
    /\ id # <<"n", "u", "l", "l">>

RECURSIVE KeepFirst(_)
\* s without the later occurrences of its elements.
KeepFirst(s) ==
    IF Len(s) <= 1 THEN s
    ELSE LET front == KeepFirst(SubSeq(s, 1, Len(s) \div 2))
             seen == {front[i] : i \in DOMAIN front}
             New(x) == x \notin seen
         IN  front \o SelectSeq(KeepFirst(SubSeq(s, Len(s) \div 2 + 1, Len(s))), New)

\* The node IDs an analysis collects for thumbnails.
CollectedIds == KeepFirst(SelectSeq(GatheredIds, Collectable))

\* C10: an analysis invokes getImages at most once, with the collected node
\* IDs - pages, then components, then frames, first occurrences only, no
\* duplicates; when no node ID is collected getImages is not invoked, no
\* image request is issued and every page, component and artboard of the
\* result has an empty thumbnail.
C10_SingleBatcherCall ==
    /\ imagesCalls <= 1
    /\ caller = "analysis" =>
          /\ imagesCalls = 1
          /\ nodeIds = CollectedIds
          /\ nodeIds # <<>>
          /\ NoDuplicates(nodeIds)
    /\ (analysis \in {"thumbnails", "emitted"} /\ CollectedIds # <<>>) => caller = "analysis"
    /\ (analysis \in {"thumbnails", "emitted"} /\ CollectedIds = <<>>) =>
          /\ analysis = "emitted"
          /\ imagesCalls = 0
          /\ caller = "none"
          /\ requests = <<>>
          /\ \A i \in DOMAIN result.pages : result.pages[i].thumbnail = <<>>
          /\ \A i \in DOMAIN result.components : result.components[i].thumbnail = <<>>
          /\ \A i \in DOMAIN result.artboards : result.artboards[i].imageUrl = <<>>

\* An analysis of a file with a page whose id is empty collected no node ID
\* and emitted its result without invoking getImages.
C10_Witness ==
    /\ analysis = "emitted"
    /\ Len(result.pages) > 0
    /\ CollectedIds = <<>>
    /\ imagesCalls = 0


(***************************************************************************)
(* The extraction functions on their own: findAllFrames, extractArtboards, *)
(* extractAllArtboards, extractComponents and the merge of fetchComponents,*)
(* applied to documents large enough to reach the frame limit.             *)
(***************************************************************************)
\* Most pages of a document handed to an extraction function.
MaxPages == 2

\* The j-th child of page i in a page of the given kind.  In a "frames" page
\* every child is a FRAME with a bounding box.  In a "mixed" page the
\* children are, in turn: a FRAME with a bounding box holding an INSTANCE, a
\* FRAME without a bounding box, an INSTANCE, a COMPONENT (a TEXT after the
\* first two of them), and a GROUP holding a FRAME with a bounding box and
\* one without.  In a "nested" page they are a COMPONENT_SET of two
\* COMPONENTs, a FRAME holding a FRAME that holds a CANVAS, and a CANVAS; the
\* innermost nodes have no children field.
PageChild(i, j, kind) ==
    LET id == KidId(i, j)
        sub(k) == id \o <<";">> \o Digits(k)
    IN  IF kind = "frames" THEN Node(id, "FRAME", TRUE, <<>>)
        ELSE IF kind = "nested"
        THEN CASE j % 3 = 1 -> Node(id, "COMPONENT_SET", FALSE,
                                    <<Node(sub(1), "COMPONENT", FALSE, NoChildren),
                                      Node(sub(2), "COMPONENT", FALSE, NoChildren)>>)
               [] j % 3 = 2 -> Node(id, "FRAME", TRUE,
                                    <<Node(sub(1), "FRAME", TRUE,
                                           <<Node(sub(2), "CANVAS", FALSE, NoChildren)>>)>>)
               [] j % 3 = 0 -> Node(id, "CANVAS", FALSE, NoChildren)
        ELSE CASE j % 5 = 1 -> Node(id, "FRAME", TRUE, <<Node(sub(1), "INSTANCE", TRUE, <<>>)>>)
               [] j % 5 = 2 -> Node(id, "FRAME", FALSE, <<>>)
               [] j % 5 = 3 -> Node(id, "INSTANCE", TRUE, <<>>)
               [] j % 5 = 4 -> Node(id, IF j < 10 THEN "COMPONENT" ELSE "TEXT", FALSE, <<>>)
               [] j % 5 = 0 -> Node(id, "GROUP", FALSE,
                                    <<Node(sub(1), "FRAME", TRUE, <<>>),
                                      Node(sub(2), "FRAME", FALSE, <<>>)>>)

\* Page i: a CANVAS with n children.
PageOf(i, shape) ==
    Node(TopId(i), "CANVAS", FALSE, [j \in 1..shape.n |-> PageChild(i, j, shape.kind)])

\* Small pages.
SmallPageShapes ==
    {[kind |-> "frames", n |-> 0], [kind |-> "frames", n |-> 1], [kind |-> "mixed", n |-> 10],
     [kind |-> "nested", n |-> 3]}

\* Page sizes around the frame limit: a mixed page of 5 nodes has 4 nodes
\* that findAllFrames collects, so one of 250 has exactly MAX_FRAMES.
LargePageShapes ==
    {[kind |-> "frames", n |-> n] : n \in {MAX_FRAMES - 1, MAX_FRAMES}}
    \cup {[kind |-> "mixed", n |-> n] :
            n \in {(MAX_FRAMES \div 4) * 5, (MAX_FRAMES \div 4) * 5 + 1}}

\* The pages of a document: small ones, the first one possibly large.
PageLists ==
    {shapes \in ListsUpTo(SmallPageShapes \cup LargePageShapes, MaxPages) :
        \A i \in DOMAIN shapes : i > 1 => shapes[i] \in SmallPageShapes}

\* The documents handed to the extraction functions.
ExtractDocuments ==
    {Node(<<"0", ":", "0">>, "DOCUMENT", FALSE,
          [i \in 1..Len(shapes) |-> PageOf(i, shapes[i])]) : shapes \in PageLists}
    \cup {Node(<<"0", ":", "0">>, "DOCUMENT", FALSE, NoChildren)}

\* What the components endpoint returned: null, or components with distinct
\* keys, one of which may be the id of a COMPONENT node of the document.
ExtractComponentsData ==
    {NoData} \cup
    {[isNull |-> FALSE, keys |-> keys, doc |-> NoData.doc] :
        keys \in {<<>>, <<KeyA>>, <<KidId(1, 4)>>, <<KeyA, KidId(1, 4)>>}}

InitExtract ==
    /\ production = FALSE
    /\ ServiceIdle
    /\ document \in ExtractDocuments
    /\ componentsApi \in ExtractComponentsData
    /\ called = "none"
    /\ returned = <<>>
    /\ StoreIdle
    /\ AppIdle

\* A call of an extraction function that returns value.
Returns(name, value) ==
    /\ called' = name
    /\ returned' = value
    /\ UNCHANGED <<production, imageVars, analysisVars, document, componentsApi, storeVars, appVars, componentVars>>

CallFindAllFrames == Returns("findAllFrames", FindAllFrames(document))

RECURSIVE ArtboardsFrom(_)
RECURSIVE ArtboardsFromAll(_)
\* extractArtboards' traverse, which starts at the node it is given.
ArtboardsFrom(node) ==
    (IF node.type = "FRAME" /\ node.bbox
     THEN <<[id |-> node.id, imageUrl |-> NoThumbnail]>> ELSE <<>>)
    \o ArtboardsFromAll(ChildrenOf(node))

ArtboardsFromAll(nodes) ==
    IF nodes = <<>> THEN <<>>
    ELSE IF Len(nodes) = 1 THEN ArtboardsFrom(nodes[1])
    ELSE ArtboardsFromAll(FirstHalf(nodes)) \o ArtboardsFromAll(SecondHalf(nodes))

ExtractArtboards(node) == ArtboardsFrom(node)

CallExtractArtboards == Returns("extractArtboards", ExtractArtboards(document))

\* Image responses handed to extractAllArtboards: none, or one for a frame.
ExtractImages == {EmptyMap, [k \in {KidId(1, 1)} |-> Url(k, 1)]}

CallExtractAllArtboards ==
    \E images \in ExtractImages :
        Returns("extractAllArtboards", ExtractAllArtboards(document, images))

CallExtractComponents ==
    Returns("extractComponents", ExtractComponents(componentsApi, document))

\* What getComponentsFromAPI emits for a components response.
ComponentsFromAPI(data) ==
    IF data.isNull THEN <<>>
    ELSE [i \in 1..Len(data.keys) |->
             [key |-> data.keys[i], id |-> data.keys[i],
              thumbnail |-> NoThumbnail, from |-> "api"]]

\* The map of fetchComponents: endpoint components, then the merge.
FetchComponentsMerge(fileDoc, fromApi) ==
    MergeComponents(fromApi, ComponentsOfNode(fileDoc))

CallFetchComponents ==
    Returns("fetchComponents",
            FetchComponentsMerge(document, ComponentsFromAPI(componentsApi)))

RECURSIVE FindPageById(_, _)
RECURSIVE FindPageByIdIn(_, _)
NoPage == [found |-> FALSE, node |-> Node(<<>>, "NONE", FALSE, <<>>)]

\* findPageById: the node itself when its id is pageId, else the first hit
\* among its children, searched in order and in depth; else null.
FindPageById(node, pageId) ==
    IF node.id = pageId THEN [found |-> TRUE, node |-> node]
    ELSE FindPageByIdIn(ChildrenOf(node), pageId)

FindPageByIdIn(nodes, pageId) ==
    IF nodes = <<>> THEN NoPage
    ELSE IF Len(nodes) = 1 THEN FindPageById(nodes[1], pageId)
    ELSE LET first == FindPageByIdIn(FirstHalf(nodes), pageId)
         IN  IF first.found THEN first ELSE FindPageByIdIn(SecondHalf(nodes), pageId)

\* Mutant: every FRAME child of the page is an artboard, boxed or not.
IsPageArtboard_AnyFrame(child) == child.type = "FRAME"

\* child.type === 'FRAME' && child.absoluteBoundingBox
IsPageArtboard(child) == child.type = "FRAME" /\ child.bbox

\* What getImages emits for ids once its batch requests have settled: the
\* batches in failing got an error, the others the URLs of their nodes but
\* the unrendered ones; a batch with an over-long URL is not requested.
GetImagesResult(ids, flen, failing, unrendered) ==
    LET valid == ValidNodeIds(ids)
        bs == Batches(valid)
        Sent(b) == ValidateUrlLength(UrlLength(bs[b], flen))
        images == [b \in DOMAIN bs |->
                      IF Sent(b) /\ b \notin failing
                      THEN [k \in Range(bs[b]) \ unrendered |-> Url(k, 1)]
                      ELSE EmptyMap]
        order == [b \in DOMAIN bs |-> b]
    IN  [images |-> IF valid = <<>> THEN EmptyMap
                    ELSE MergeResponses(ForkJoinResults(images, order)),
         failed |-> {b \in DOMAIN bs : Sent(b) /\ b \in failing}]

\* fetchPageArtboards: what the observable emits, and whether it errors,
\* for a file request that fails or answers with doc.
FetchPageArtboards(doc, pageId, fileFails, flen, failing, unrendered) ==
    LET page == FindPageById(doc, pageId)
        artboards == SelectSeq(ChildrenOf(page.node), IsPageArtboard)
        ids == [i \in DOMAIN artboards |-> artboards[i].id]
        response == GetImagesResult(ids, flen, failing, unrendered)
        Emits(list, failed) ==
            [pageId |-> pageId, fileFails |-> fileFails, failed |-> failed,
             emitted |-> list, errored |-> FALSE]
    IN  IF fileFails THEN Emits(<<>>, {})
        ELSE IF ~page.found \/ ~HasChildren(page.node) THEN Emits(<<>>, {})
        ELSE IF artboards = <<>> THEN Emits(artboards, {})
        ELSE Emits([i \in DOMAIN artboards |->
                       [id |-> artboards[i].id,
                        thumbnail |-> ImageOr(response.images, artboards[i].id)]],
                   response.failed)

\* The ids fetchPageArtboards is asked for: the document, a page, a frame
\* that holds a node, a frame that holds a frame, and an id of no node.
PageIds == {<<"0", ":", "0">>, TopId(1), KidId(1, 1), KidId(1, 2), KidId(9, 9)}

\* How the requests of a fetchPageArtboards call end: the file request
\* fails; or it succeeds and the image requests all succeed, or the first
\* or the second batch fails, or the server leaves one frame unrendered.
FetchOutcomes ==
    {[fileFails |-> TRUE, failing |-> {}, unrendered |-> {}]}
    \cup {[fileFails |-> FALSE, failing |-> f, unrendered |-> {}] : f \in {{}, {1}, {2}}}
    \cup {[fileFails |-> FALSE, failing |-> {}, unrendered |-> {KidId(1, 1)}]}

CallFetchPageArtboards ==
    \E pageId \in PageIds, o \in FetchOutcomes :
        Returns("fetchPageArtboards",
                FetchPageArtboards(document, pageId, o.fileFails, FileIdLenShort,
                                   o.failing, o.unrendered))

CallExtractPages == Returns("extractPages", ExtractPages(document))

CallExtractComponentsFromNodes ==
    Returns("extractComponentsFromNodes", ComponentsOfNode(document))

NextExtract ==
    \/ CallFindAllFrames
    \/ CallExtractArtboards
    \/ CallExtractAllArtboards
    \/ CallExtractComponents
    \/ CallFetchComponents
    \/ CallFetchPageArtboards
    \/ CallExtractPages
    \/ CallExtractComponentsFromNodes

SpecExtract == InitExtract /\ [][NextExtract]_vars

(***************************************************************************)
(* ConnectionPersistenceService.  A string is the sequence of its UTF-16   *)
(* code units.  A base64 string is the sequence of its characters, each    *)
(* written as its index in the base64 alphabet (0..63), 64 for the padding *)
(* '=' and 65 for a character outside the alphabet.                        *)
(***************************************************************************)
\* 'figma-ds-copilot-encrypt'
ENCRYPTION_KEY ==
    <<102, 105, 103, 109, 97, 45, 100, 115, 45, 99, 111, 112, 105, 108, 111, 116,
      45, 101, 110, 99, 114, 121, 112, 116>>

RECURSIVE Xor(_, _)
\* a ^ b
Xor(a, b) ==
    IF a = 0 THEN b
    ELSE IF b = 0 THEN a
    ELSE (((a % 2) + (b % 2)) % 2) + 2 * Xor(a \div 2, b \div 2)

\* The loop of encryptData and of decryptData: charCodeAt(i) ^ key.charCodeAt(i % key.length).
XorWithKey(data) ==
    [i \in 1..Len(data) |-> Xor(data[i], ENCRYPTION_KEY[((i - 1) % Len(ENCRYPTION_KEY)) + 1])]

\* What a function that may throw yields.
Thrown == [ok |-> FALSE, value |-> <<>>]

Value(v) == [ok |-> TRUE, value |-> v]

RECURSIVE Base64(_)
\* Three bytes become four base64 characters; the last group is padded.
Base64(bytes) ==
    IF bytes = <<>> THEN <<>>
    ELSE IF Len(bytes) = 1
    THEN <<bytes[1] \div 4, (bytes[1] % 4) * 16, 64, 64>>
    ELSE IF Len(bytes) = 2
    THEN <<bytes[1] \div 4, (bytes[1] % 4) * 16 + (bytes[2] \div 16), (bytes[2] % 16) * 4, 64>>
    ELSE <<bytes[1] \div 4, (bytes[1] % 4) * 16 + (bytes[2] \div 16),
           (bytes[2] % 16) * 4 + (bytes[3] \div 64), bytes[3] % 64>>
         \o Base64(SubSeq(bytes, 4, Len(bytes)))

\* btoa: throws InvalidCharacterError on a code unit above 255.
Btoa(data) ==
    IF \E i \in DOMAIN data : data[i] > 255 THEN Thrown ELSE Value(Base64(data))

RECURSIVE Bytes(_)
\* Four base64 characters become three bytes; a last group of two or three
\* characters becomes one or two.
Bytes(chars) ==
    IF Len(chars) < 2 THEN <<>>
    ELSE IF Len(chars) = 2 THEN <<chars[1] * 4 + (chars[2] \div 16)>>
    ELSE IF Len(chars) = 3
    THEN <<chars[1] * 4 + (chars[2] \div 16), (chars[2] % 16) * 16 + (chars[3] \div 4)>>
    ELSE <<chars[1] * 4 + (chars[2] \div 16), (chars[2] % 16) * 16 + (chars[3] \div 4),
           (chars[3] % 4) * 64 + chars[4]>>
         \o Bytes(SubSeq(chars, 5, Len(chars)))

\* atob: drops the padding of a string whose length is a multiple of four,
\* and throws on a character outside the alphabet, on padding elsewhere and
\* on a length that leaves one character over.
Atob(chars) ==
    LET n == Len(chars)
        padded == n > 0 /\ n % 4 = 0
        drop == IF padded /\ chars[n] = 64
                THEN (IF chars[n - 1] = 64 THEN 2 ELSE 1) ELSE 0
        body == SubSeq(chars, 1, n - drop)
    IN  IF \/ \E i \in DOMAIN body : body[i] >= 64
           \/ Len(body) % 4 = 1
        THEN Thrown
        ELSE Value(Bytes(body))

\* encryptData
EncryptData(data) == Btoa(XorWithKey(data))

\* decryptData
DecryptData(encryptedData) ==
    LET data == Atob(encryptedData)
    IN  IF data.ok THEN Value(XorWithKey(data.value)) ELSE Thrown

(***************************************************************************)
(* JSON text of a StoredConnection.  The text is written without its keys: *)
(* {"connectionType","credentials","fileInfo","lastConnected",isValid},    *)
(* credentials and fileInfo each standing for the one string they hold.    *)
(***************************************************************************)
\* A string written between quotation marks as it is.
JsonEscape_None(str) == str

RECURSIVE JsonEscape(_)
\* A quotation mark and a reverse solidus are written with a reverse solidus.
JsonEscape(str) ==
    IF str = <<>> THEN <<>>
    ELSE (IF Head(str) \in {34, 92} THEN <<92, Head(str)>> ELSE <<Head(str)>>)
         \o JsonEscape(Tail(str))

JsonString(str) == <<34>> \o JsonEscape(str) \o <<34>>

JsonTrue == <<116, 114, 117, 101>>
JsonFalse == <<102, 97, 108, 115, 101>>

\* JSON.stringify(connection)
JsonStringify(c) ==
    <<123>> \o JsonString(c.connectionType) \o <<44>> \o JsonString(c.credentials)
    \o <<44>> \o JsonString(c.fileInfo) \o <<44>> \o JsonString(c.lastConnected)
    \o <<44>> \o (IF c.isValid THEN JsonTrue ELSE JsonFalse) \o <<125>>

\* text[i], or -1 past the end.
CharAt(text, i) == IF i \in DOMAIN text THEN text[i] ELSE -1

NoString == [ok |-> FALSE, value |-> <<>>, next |-> 0]

RECURSIVE ScanString(_, _, _)
\* The characters of a JSON string from text[i] to its closing quotation mark.
ScanString(text, i, read) ==
    LET c == CharAt(text, i)
    IN  IF c = -1 THEN NoString
        ELSE IF c = 34 THEN [ok |-> TRUE, value |-> read, next |-> i + 1]
        ELSE IF c = 92
        THEN (IF CharAt(text, i + 1) \in {34, 92}
              THEN ScanString(text, i + 2, Append(read, text[i + 1]))
              ELSE NoString)
        ELSE ScanString(text, i + 1, Append(read, c))

\* The JSON string that starts at text[i].
ReadString(text, i) ==
    IF CharAt(text, i) = 34 THEN ScanString(text, i + 1, <<>>) ELSE NoString

\* The JSON string that follows the comma after the value before.
NextString(text, before) ==
    IF before.ok /\ CharAt(text, before.next) = 44
    THEN ReadString(text, before.next + 1) ELSE NoString

\* JSON.parse(text): throws SyntaxError on text that is not JSON.
JsonParse(text) ==
    LET type == IF CharAt(text, 1) = 123 THEN ReadString(text, 2) ELSE NoString
        credentials == NextString(text, type)
        fileInfo == NextString(text, credentials)
        lastConnected == NextString(text, fileInfo)
        at == lastConnected.next + 1
        isTrue == SubSeq(text, at, Len(text)) = JsonTrue \o <<125>>
        isFalse == SubSeq(text, at, Len(text)) = JsonFalse \o <<125>>
    IN  IF /\ lastConnected.ok
           /\ CharAt(text, lastConnected.next) = 44
           /\ isTrue \/ isFalse
        THEN Value([connectionType |-> type.value, credentials |-> credentials.value,
                    fileInfo |-> fileInfo.value, lastConnected |-> lastConnected.value,
                    isValid |-> isTrue])
        ELSE Thrown

(***************************************************************************)
(* Dates.  A timestamp is a number of milliseconds since the model's       *)
(* epoch; its string form (toISOString) is written as its decimal digits.  *)
(***************************************************************************)
MsPerDay == 1000 * 3600 * 24

RECURSIVE ToDateString(_)
\* new Date(ms).toISOString()
ToDateString(ms) ==
    IF ms < 10 THEN <<48 + ms>> ELSE ToDateString(ms \div 10) \o <<48 + (ms % 10)>>

NotANumber == [nan |-> TRUE, ms |-> 0]

RECURSIVE DigitsValue(_)
DigitsValue(str) ==
    IF str = <<>> THEN 0
    ELSE 10 * DigitsValue(SubSeq(str, 1, Len(str) - 1)) + (str[Len(str)] - 48)

\* new Date(str).getTime(): NaN for a string that is no date.
DateTime(str) ==
    IF str # <<>> /\ \A i \in DOMAIN str : str[i] \in 48..57
    THEN [nan |-> FALSE, ms |-> DigitsValue(str)]
    ELSE NotANumber

(***************************************************************************)
(* ConnectionPersistenceService: one localStorage item, STORAGE_KEY, holds *)
(* the encrypted JSON text of the stored connection.                       *)
(***************************************************************************)
MaxTicks == 1

\* The clock of the model starts eight days after its epoch.
StartTime == 8 * MsPerDay

RETENTION_DAYS == 7

TypeFigma == <<102>>
TypeMcp == <<109>>

\* File names: "A", "e-acute", Cyrillic "De", and a"\ .
FileNames == {<<65>>, <<233>>, <<1044>>, <<97, 34, 92>>}

\* lastConnected: 8 days, exactly 7 days and a millisecond less than 7 days
\* before StartTime, and a string that is no date.
LastConnectedStrings ==
    {ToDateString(0), ToDateString(MsPerDay), ToDateString(MsPerDay + 1), <<63>>}

StoredConnection(connectionType, credentials, fileInfo, lastConnected, isValid) ==
    [connectionType |-> connectionType, credentials |-> credentials,
     fileInfo |-> fileInfo, lastConnected |-> lastConnected, isValid |-> isValid]

\* Figma connections with every file name, MCP connections with the first.
Connections ==
    {StoredConnection(TypeFigma, <<116>>, f, l, v) :
        f \in FileNames, l \in LastConnectedStrings, v \in BOOLEAN}
    \cup {StoredConnection(TypeMcp, <<116>>, <<65>>, l, v) :
            l \in LastConnectedStrings, v \in BOOLEAN}

Item(value) == [present |-> TRUE, value |-> value]

\* What localStorage may hold when the application starts: nothing, the empty
\* string, a string that is not base64, the encryption of a text that is not
\* JSON, or the encryption of a connection with a Latin-1 file name.
InitialItems ==
    {NoItem, Item(<<>>), Item(<<65>>), Item(EncryptData(<<120>>).value)}
    \cup {Item(EncryptData(JsonStringify(c)).value) :
            c \in {d \in Connections : d.fileInfo \in {<<65>>, <<97, 34, 92>>}}}

Null == [isNull |-> TRUE]
Some(value) == [isNull |-> FALSE, value |-> value]

\* storeConnection: the item after the call.  An exception of btoa is caught
\* and logged, and the item stays as it was.
StoreConnection(item, connection) ==
    LET encryptedData == EncryptData(JsonStringify(connection))
    IN  IF encryptedData.ok THEN Item(encryptedData.value) ELSE item

\* getItem returned a string that is falsy: null or the empty string.
NoEncryptedData(item) == ~item.present \/ item.value = <<>>

\* clearStoredConnection leaving the item in place.
ClearStoredConnection_Noop(item) == item

\* clearStoredConnection
ClearStoredConnection(item) == NoItem

\* getStoredConnection: what it returns, and the item after the call.
GetStoredConnection(item) ==
    IF NoEncryptedData(item) THEN [connection |-> Null, item |-> item]
    ELSE LET decryptedData == DecryptData(item.value)
             parsed == IF decryptedData.ok THEN JsonParse(decryptedData.value)
                       ELSE Thrown
         IN  IF parsed.ok THEN [connection |-> Some(parsed.value), item |-> item]
             ELSE [connection |-> Null, item |-> ClearStoredConnection(item)]

\* daysDiff <= 7: the window taken one boundary too wide.
WithinRetention_Inclusive(msDiff) == msDiff <= RETENTION_DAYS * MsPerDay

\* daysDiff < 7, with daysDiff = msDiff / (1000 * 3600 * 24)
WithinRetention(msDiff) == msDiff < RETENTION_DAYS * MsPerDay

\* hasValidStoredConnection deleting the record it finds unusable.
HasValidStoredConnection_Deleting(item, time) ==
    LET read == GetStoredConnection(item)
        lastConnected == DateTime(read.connection.value.lastConnected)
        value == /\ ~read.connection.isNull
                 /\ read.connection.value.isValid
                 /\ ~lastConnected.nan
                 /\ WithinRetention(time - lastConnected.ms)
    IN  [value |-> value, item |-> IF value THEN read.item ELSE NoItem]

\* hasValidStoredConnection: what it returns, and the item after the call.
\* A comparison with NaN is false.
HasValidStoredConnection(item, time) ==
    LET read == GetStoredConnection(item)
        lastConnected == DateTime(read.connection.value.lastConnected)
    IN  [value |-> /\ ~read.connection.isNull
                   /\ read.connection.value.isValid
                   /\ ~lastConnected.nan
                   /\ WithinRetention(time - lastConnected.ms),
         item |-> read.item]

\* updateConnectionValidity writing nothing.
UpdateConnectionValidity_Unchanged(item, time, isValid) == item

\* Mutant: lastConnected is overwritten whatever the flag.
UpdateConnectionValidity_Refresh(item, time, isValid) ==
    LET read == GetStoredConnection(item)
        connection == [read.connection.value EXCEPT
                          !.isValid = isValid,
                          !.lastConnected = ToDateString(time)]
    IN  IF read.connection.isNull THEN read.item
        ELSE StoreConnection(read.item, connection)

\* updateConnectionValidity: the item after the call.
UpdateConnectionValidity(item, time, isValid) ==
    LET read == GetStoredConnection(item)
        connection == [read.connection.value EXCEPT
                          !.isValid = isValid,
                          !.lastConnected = IF isValid THEN @ ELSE ToDateString(time)]
    IN  IF read.connection.isNull THEN read.item
        ELSE StoreConnection(read.item, connection)

\* createStoredConnection
CreateStoredConnection(connectionType, credentials, fileInfo, time) ==
    StoredConnection(connectionType, credentials, fileInfo, ToDateString(time), TRUE)

InitStore ==
    /\ production = FALSE
    /\ ServiceIdle
    /\ ExtractIdle
    /\ passed = <<>>
    /\ localStorage \in InitialItems
    /\ now = StartTime
    /\ AppIdle

\* A call of the service has returned.
Called(name, args, value, item) ==
    /\ called' = name
    /\ passed' = args
    /\ returned' = value
    /\ localStorage' = item
    /\ UNCHANGED <<production, imageVars, analysisVars, document, componentsApi, now, appVars, componentVars>>

CallStoreConnection ==
    \E c \in Connections :
        Called("storeConnection", c, <<>>, StoreConnection(localStorage, c))

CallGetStoredConnection ==
    LET read == GetStoredConnection(localStorage)
    IN  Called("getStoredConnection", <<>>, read.connection, read.item)

CallClearStoredConnection ==
    Called("clearStoredConnection", <<>>, <<>>, ClearStoredConnection(localStorage))

CallHasValidStoredConnection ==
    LET has == HasValidStoredConnection(localStorage, now)
    IN  Called("hasValidStoredConnection", <<>>, has.value, has.item)

CallUpdateConnectionValidity ==
    \E isValid \in BOOLEAN :
        Called("updateConnectionValidity", isValid, <<>>,
               UpdateConnectionValidity(localStorage, now, isValid))

CallCreateStoredConnection ==
    \E t \in {TypeFigma, TypeMcp}, f \in FileNames :
        Called("createStoredConnection", <<t, <<116>>, f>>,
               CreateStoredConnection(t, <<116>>, f, now), localStorage)

\* A day passes; what the last call returned belongs to the past.
Tick ==
    /\ now < StartTime + MaxTicks * MsPerDay
    /\ now' = now + MsPerDay
    /\ called' = "none"
    /\ returned' = <<>>
    /\ passed' = <<>>
    /\ UNCHANGED <<production, imageVars, analysisVars, document, componentsApi, localStorage, appVars, componentVars>>

NextStore ==
    \/ CallStoreConnection
    \/ CallGetStoredConnection
    \/ CallClearStoredConnection
    \/ CallHasValidStoredConnection
    \/ CallUpdateConnectionValidity
    \/ CallCreateStoredConnection
    \/ Tick

SpecStore == InitStore /\ [][NextStore]_vars

(***************************************************************************)
(* App: connection restore at application start (ngOnInit), with the       *)
(* validation call syncFileChanges and the analysis snapshot it reads.     *)
(***************************************************************************)
\* Version strings: "1", "2" and 1" .
Versions == {<<49>>, <<50>>, <<49, 34>>}

\* JSON.stringify(data) of a FigmaFileData, written as its fileVersion alone.
SnapshotText(fileVersion) == <<123>> \o JsonString(fileVersion) \o <<125>>

\* JSON.parse of the stored snapshot text.
SnapshotParse(text) ==
    LET fileVersion == IF CharAt(text, 1) = 123 THEN ReadString(text, 2) ELSE NoString
    IN  IF fileVersion.ok /\ fileVersion.next = Len(text) /\ CharAt(text, Len(text)) = 125
        THEN Value([fileVersion |-> fileVersion.value])
        ELSE Thrown

\* storeLocalData
StoreLocalData(fileVersion) == Item(SnapshotText(fileVersion))

\* getStoredData: null for no item, for the empty string and for a text that
\* JSON.parse rejects.
GetStoredData(item) ==
    IF ~item.present \/ item.value = <<>> THEN Null
    ELSE LET parsed == SnapshotParse(item.value)
         IN  IF parsed.ok THEN Some(parsed.value) ELSE Null

\* syncFileChanges reporting a change when the versions are the same.
SyncFileChanges_Same(item, version) ==
    LET storedData == GetStoredData(item)
    IN  IF storedData.isNull THEN TRUE
        ELSE storedData.value.fileVersion = version

\* syncFileChanges, map: the value for a fetched file of the given version.
SyncFileChanges(item, version) ==
    LET storedData == GetStoredData(item)
    IN  IF storedData.isNull THEN TRUE
        ELSE storedData.value.fileVersion # version

\* syncFileChanges, catchError: the value emitted for a failed fetch.
SyncCatchError == FALSE

\* What 'figma-file-data' may hold: nothing, the empty string, a text that is
\* not JSON, or a snapshot.
SnapshotItems ==
    {NoItem, Item(<<>>), Item(<<120>>)} \cup {StoreLocalData(v) : v \in Versions}

\* Connections stored on the day the application starts.
FreshConnections ==
    {StoredConnection(t, <<116>>, <<65>>, ToDateString(StartTime), v) :
        t \in {TypeFigma, TypeMcp}, v \in BOOLEAN}

RestoreItems ==
    InitialItems \cup {Item(EncryptData(JsonStringify(c)).value) : c \in FreshConnections}

InitRestore ==
    /\ production = FALSE
    /\ ServiceIdle
    /\ ExtractIdle
    /\ passed = <<>>
    /\ localStorage \in RestoreItems
    /\ now = StartTime
    /\ restore = "none"
    /\ storedConnection = <<>>
    /\ validation = NoValidation
    /\ snapshot \in SnapshotItems
    /\ app = <<>>
    /\ subscriptions = <<>>
    /\ view = <<>>

frozenVars == <<production, imageVars, analysisVars, extractVars, passed, componentVars>>

\* ngOnInit, attemptConnectionRestore: up to the subscription to the
\* validation call.
NgOnInit ==
    /\ restore = "none"
    /\ LET has == HasValidStoredConnection(localStorage, now)
           read == GetStoredConnection(has.item)
       IN  IF has.value /\ ~read.connection.isNull
           THEN /\ restore' = "validating"
                /\ storedConnection' = read.connection.value
                /\ localStorage' = read.item
           ELSE /\ restore' = "idle"
                /\ localStorage' = has.item
                /\ UNCHANGED storedConnection
    /\ UNCHANGED <<frozenVars, now, validation, snapshot>>

\* The validation call emitted a value: next, restoreConnectionData,
\* connectWithCredentials(..., true) up to the subscription to the analysis.
ValidationNext(call) ==
    /\ validation' = call
    /\ restore' = "analysing"
    /\ UNCHANGED <<frozenVars, now, localStorage, storedConnection, snapshot>>

\* The validation call failed: error, updateConnectionValidity(false).
ValidationError(call) ==
    /\ validation' = call
    /\ restore' = "invalid"
    /\ localStorage' = UpdateConnectionValidity(localStorage, now, FALSE)
    /\ UNCHANGED <<frozenVars, now, storedConnection, snapshot>>

SyncCall(fetch, service, version, emitted) ==
    [fetch |-> fetch, service |-> service, version |-> version, emitted |-> emitted]

\* FigmaService.syncFileChanges: the file was fetched.
FigmaSyncResponds ==
    /\ restore = "validating"
    /\ storedConnection.connectionType = TypeFigma
    /\ \E version \in Versions :
         ValidationNext(SyncCall("ok", "figma", version, SyncFileChanges(snapshot, version)))

\* FigmaService.syncFileChanges: the fetch failed, and catchError emits false.
FigmaSyncFails ==
    /\ restore = "validating"
    /\ storedConnection.connectionType = TypeFigma
    /\ ValidationNext(SyncCall("failed", "figma", <<>>, SyncCatchError))

\* MCPConnectionService.syncFileChanges: response.hasChanges || false.
McpSyncResponds ==
    /\ restore = "validating"
    /\ storedConnection.connectionType = TypeMcp
    /\ \E hasChanges \in BOOLEAN :
         ValidationNext(SyncCall("ok", "mcp", <<>>, hasChanges))

\* MCPConnectionService.syncFileChanges: the request failed.  The service
\* emits false in one of its versions and throws {message, status} in another.
McpSyncFails ==
    /\ restore = "validating"
    /\ storedConnection.connectionType = TypeMcp
    /\ \/ ValidationNext(SyncCall("failed", "mcp", <<>>, FALSE))
       \/ ValidationError(SyncCall("failed", "mcp", <<>>, FALSE))

\* connectWithCredentials, next: the analysis emitted, and the connection is
\* created and stored.
AnalysisNext ==
    /\ restore = "analysing"
    /\ \E name \in FileNames :
         localStorage' =
             StoreConnection(localStorage,
                 CreateStoredConnection(storedConnection.connectionType,
                                        storedConnection.credentials, name, now))
    /\ restore' = "connected"
    /\ UNCHANGED <<frozenVars, now, storedConnection, validation, snapshot>>

\* connectWithCredentials, error with isRestore: updateConnectionValidity(false).
AnalysisError ==
    /\ restore = "analysing"
    /\ localStorage' = UpdateConnectionValidity(localStorage, now, FALSE)
    /\ restore' = "failed"
    /\ UNCHANGED <<frozenVars, now, storedConnection, validation, snapshot>>

\* storeLocalData(data)
CallStoreLocalData ==
    /\ \E v \in Versions : snapshot' = StoreLocalData(v)
    /\ UNCHANGED <<frozenVars, now, localStorage, restore, storedConnection, validation>>

NextRestore ==
    \/ NgOnInit
    \/ FigmaSyncResponds
    \/ FigmaSyncFails
    \/ McpSyncResponds
    \/ McpSyncFails
    \/ AnalysisNext
    \/ AnalysisError
    \/ CallStoreLocalData
    \/ Tick

SpecRestore == InitRestore /\ [][NextRestore]_vars

(***************************************************************************)
(* Style normalisation: rgbaToHex, extractColorValue, extractTextValue and *)
(* extractEffectValue.  Their results are strings; a colour channel is a   *)
(* number of ChannelUnit-ths, so that channel * 255 is exact.  A property  *)
(* that may be missing is Null or Some(value).                             *)
(***************************************************************************)
\* A colour channel c stands for the number c / ChannelUnit.
ChannelUnit == 16

\* The object a normalisation function is given: a colour or a style.
style == passed

HexDigits == <<"0", "1", "2", "3", "4", "5", "6", "7", "8", "9",
               "a", "b", "c", "d", "e", "f">>

RECURSIVE ToString16(_)
\* Number.prototype.toString(16)
ToString16(n) ==
    IF n < 16 THEN HexDigits[n + 1]
    ELSE ToString16(n \div 16) \o HexDigits[(n % 16) + 1]

RECURSIVE PadStart(_, _, _)
\* String.prototype.padStart(targetLength, padString) for a one-character pad.
PadStart(str, targetLength, padString) ==
    IF Len(str) >= targetLength THEN str
    ELSE PadStart(padString \o str, targetLength, padString)

\* Mutant: the fraction is cut off.
Round255_Truncate(c) == (c * 255) \div ChannelUnit

\* Math.round(channel * 255): the nearest integer, a half rounded up.
Round255(c) == (2 * c * 255 + ChannelUnit) \div (2 * ChannelUnit)

\* rgbaToHex
RgbaToHex(color) ==
    LET r == Round255(color.r)
        g == Round255(color.g)
        b == Round255(color.b)
    IN  "#" \o PadStart(ToString16(r), 2, "0") \o PadStart(ToString16(g), 2, "0")
            \o PadStart(ToString16(b), 2, "0")

Color(r, g, b, a) == [r |-> r, g |-> g, b |-> b, a |-> a]

\* Channel values from 0 to 1 (ChannelUnit), a half among them.
Channels == {0, 1, ChannelUnit \div 4, ChannelUnit \div 2, ChannelUnit - 1, ChannelUnit}

Colors == {Color(r, g, b, a) : r \in Channels, g \in Channels, b \in Channels,
                               a \in {0, ChannelUnit \div 2, ChannelUnit}}

\* A paint (fill): its type and its colour, if it has one.
Paint(type, color) == [type |-> type, color |-> color]

\* array && Array.isArray(array) && array.length > 0
HasItems(list) == ~list.isNull /\ list.value # <<>>

\* The colour of the first paint of a list: fill.type === 'SOLID' && fill.color
FirstSolid(list) ==
    IF HasItems(list) /\ list.value[1].type = "SOLID" /\ ~list.value[1].color.isNull
    THEN list.value[1].color
    ELSE Null

ColorFallback == "#000000"

\* Mutant: the fills nested under `style` are tried before the direct ones.
ExtractColorValue_NestedFirst(s) ==
    LET nested == IF s.style.isNull THEN Null ELSE FirstSolid(s.style.value.fills)
    IN  IF ~nested.isNull THEN RgbaToHex(nested.value)
        ELSE IF ~FirstSolid(s.fills).isNull THEN RgbaToHex(FirstSolid(s.fills).value)
        ELSE IF ~s.color.isNull THEN RgbaToHex(s.color.value)
        ELSE IF ~FirstSolid(s.paints).isNull THEN RgbaToHex(FirstSolid(s.paints).value)
        ELSE ColorFallback

\* extractColorValue: fills, color, style.fills, paints, fallback.
ExtractColorValue(s) ==
    LET nested == IF s.style.isNull THEN Null ELSE FirstSolid(s.style.value.fills)
    IN  IF ~FirstSolid(s.fills).isNull THEN RgbaToHex(FirstSolid(s.fills).value)
        ELSE IF ~s.color.isNull THEN RgbaToHex(s.color.value)
        ELSE IF ~nested.isNull THEN RgbaToHex(nested.value)
        ELSE IF ~FirstSolid(s.paints).isNull THEN RgbaToHex(FirstSolid(s.paints).value)
        ELSE ColorFallback

RECURSIVE NumberToString(_)
\* `${n}` for an integer n.
NumberToString(n) ==
    IF n < 0 THEN "-" \o NumberToString(0 - n)
    ELSE IF n < 10 THEN DigitChars[n + 1]
    ELSE NumberToString(n \div 10) \o DigitChars[(n % 10) + 1]

\* JavaScript's truthiness of a string and of a number property.
TruthyString(p) == ~p.isNull /\ p.value # ""

TruthyNumber(p) == ~p.isNull /\ p.value # 0

\* The font properties of an object.
Font(fontFamily, fontSize, fontWeight, lineHeightPx) ==
    [fontFamily |-> fontFamily, fontSize |-> fontSize, fontWeight |-> fontWeight,
     lineHeightPx |-> lineHeightPx]

\* o.fontFamily || o.fontSize || o.fontWeight
HasFont(o) ==
    TruthyString(o.fontFamily) \/ TruthyNumber(o.fontSize) \/ TruthyNumber(o.fontWeight)

\* The template of extractTextValue, with its defaults.
TextOf(o) ==
    LET fontFamily == IF TruthyString(o.fontFamily) THEN o.fontFamily.value ELSE "Arial"
        fontSize == IF TruthyNumber(o.fontSize) THEN o.fontSize.value ELSE 16
        fontWeight == IF TruthyNumber(o.fontWeight) THEN o.fontWeight.value ELSE 400
        lineHeight == IF TruthyNumber(o.lineHeightPx)
                      THEN NumberToString(o.lineHeightPx.value) \o "px" ELSE "normal"
    IN  "font-family: \"" \o fontFamily \o "\"; font-size: " \o NumberToString(fontSize)
        \o "px; font-weight: " \o NumberToString(fontWeight)
        \o "; line-height: " \o lineHeight \o ";"

TextFallback == "font-family: Arial; font-size: 16px;"

\* Mutant: the fallback has the canonical form with every default.
ExtractTextValue_CanonicalFallback(s) ==
    IF HasFont(s) THEN TextOf(s)
    ELSE IF ~s.style.isNull /\ HasFont(s.style.value) THEN TextOf(s.style.value)
    ELSE IF ~s.typeStyle.isNull /\ HasFont(s.typeStyle.value) THEN TextOf(s.typeStyle.value)
    ELSE TextOf(s)

\* extractTextValue: direct properties, style, typeStyle, fallback.
ExtractTextValue(s) ==
    IF HasFont(s) THEN TextOf(s)
    ELSE IF ~s.style.isNull /\ HasFont(s.style.value) THEN TextOf(s.style.value)
    ELSE IF ~s.typeStyle.isNull /\ HasFont(s.typeStyle.value) THEN TextOf(s.typeStyle.value)
    ELSE TextFallback

\* An effect: its type, its offset {x, y}, its radius and its colour.
Effect(type, offset, radius, color) ==
    [type |-> type, offset |-> offset, radius |-> radius, color |-> color]

\* The shadow of the first effect of a list, when it is a DROP_SHADOW with
\* an offset and a colour.
FirstShadow(list) ==
    IF HasItems(list) /\ list.value[1].type = "DROP_SHADOW"
       /\ ~list.value[1].offset.isNull /\ ~list.value[1].color.isNull
    THEN LET effect == list.value[1]
             x == effect.offset.value.x
             y == effect.offset.value.y
             blur == IF TruthyNumber(effect.radius) THEN effect.radius.value ELSE 4
             color == RgbaToHex(effect.color.value)
         IN  Some("box-shadow: " \o NumberToString(x) \o "px " \o NumberToString(y)
                  \o "px " \o NumberToString(blur) \o "px " \o color \o ";")
    ELSE Null

\* Mutant: no shadow at all.
EffectFallback_None == "none"

EffectFallback == "box-shadow: 0 2px 4px rgba(0,0,0,0.1);"

\* extractEffectValue: effects, style.effects, effectStyle.effects, fallback.
ExtractEffectValue(s) ==
    LET direct == FirstShadow(s.effects)
        nested == IF s.style.isNull THEN Null ELSE FirstShadow(s.style.value.effects)
        alternative == IF s.effectStyle.isNull THEN Null
                       ELSE FirstShadow(s.effectStyle.value.effects)
    IN  IF ~direct.isNull THEN direct.value
        ELSE IF ~nested.isNull THEN nested.value
        ELSE IF ~alternative.isNull THEN alternative.value
        ELSE EffectFallback

\* A style object and the object nested under its `style` property, with
\* every property missing.
EmptyStyle ==
    [fills |-> Null, color |-> Null, style |-> Null, paints |-> Null,
     fontFamily |-> Null, fontSize |-> Null, fontWeight |-> Null, lineHeightPx |-> Null,
     typeStyle |-> Null, effects |-> Null, effectStyle |-> Null]

EmptyNested ==
    [fills |-> Null, effects |-> Null,
     fontFamily |-> Null, fontSize |-> Null, fontWeight |-> Null, lineHeightPx |-> Null]

Red == Color(ChannelUnit, 0, 0, ChannelUnit)
Green == Color(0, ChannelUnit, 0, ChannelUnit)
Blue == Color(0, 0, ChannelUnit, ChannelUnit \div 2)
White == Color(ChannelUnit, ChannelUnit, ChannelUnit, 0)

Solid(color) == Some(<<Paint("SOLID", Some(color))>>)

\* Paint lists: missing, empty, a first paint that is not SOLID or has no
\* colour, a SOLID first paint, and a SOLID paint behind an image.
FillLists ==
    {Null, Some(<<>>), Some(<<Paint("GRADIENT_LINEAR", Null)>>),
     Some(<<Paint("SOLID", Null)>>), Solid(Red),
     Some(<<Paint("IMAGE", Null), Paint("SOLID", Some(Red))>>)}

\* Styles with colours in up to four places, a different colour in each.
ColorStyles ==
    {[EmptyStyle EXCEPT !.fills = f, !.color = c, !.style = n, !.paints = p] :
        f \in FillLists, c \in {Null, Some(Green)},
        n \in {Null, Some(EmptyNested), Some([EmptyNested EXCEPT !.fills = Solid(Blue)])},
        p \in {Null, Some(<<>>), Solid(White)}}

\* Font properties: none, a line height only, one of the three others, all
\* four, and falsy values.
Fonts ==
    {Font(Null, Null, Null, Null), Font(Null, Null, Null, Some(20)),
     Font(Some("Inter"), Null, Null, Null), Font(Null, Some(14), Null, Null),
     Font(Null, Null, Some(700), Some(24)),
     Font(Some("Inter"), Some(14), Some(700), Some(20)),
     Font(Some(""), Some(0), Some(0), Null)}

WithFont(o, font) ==
    [o EXCEPT !.fontFamily = font.fontFamily, !.fontSize = font.fontSize,
              !.fontWeight = font.fontWeight, !.lineHeightPx = font.lineHeightPx]

\* Styles with font properties in up to three places.
TextStyles ==
    {[WithFont(EmptyStyle, direct) EXCEPT !.style = n, !.typeStyle = t] :
        direct \in Fonts,
        n \in {Null, Some(EmptyNested),
               Some(WithFont(EmptyNested, Font(Some("Roboto"), Some(12), Some(500), Null)))},
        t \in {Null, Some(Font(Some("Mono"), Some(10), Null, Some(15)))}}

Offset(x, y) == Some([x |-> x, y |-> y])

Shadow(x, y, radius, color) == Effect("DROP_SHADOW", Offset(x, y), Some(radius), Some(color))

\* Effect lists: missing, empty, no DROP_SHADOW first, a DROP_SHADOW without
\* offset or colour, and DROP_SHADOWs, one with a zero radius.
EffectLists ==
    {Null, Some(<<>>), Some(<<Effect("INNER_SHADOW", Offset(1, 1), Some(2), Some(Red))>>),
     Some(<<Effect("LAYER_BLUR", Null, Some(2), Null), Shadow(1, 1, 2, Red)>>),
     Some(<<Effect("DROP_SHADOW", Null, Some(2), Some(Red))>>),
     Some(<<Effect("DROP_SHADOW", Offset(1, 1), Some(2), Null)>>),
     Some(<<Shadow(2, 4, 8, Red)>>), Some(<<Shadow(0, 0 - 1, 0, White)>>)}

\* Styles with effects in up to three places.
EffectStyles ==
    {[EmptyStyle EXCEPT !.effects = e, !.style = n, !.effectStyle = a] :
        e \in EffectLists,
        n \in {Null, Some([EmptyNested EXCEPT !.effects = Some(<<Shadow(3, 3, 3, Green)>>)])},
        a \in {Null, Some([effects |-> Some(<<>>)]),
               Some([effects |-> Some(<<Shadow(5, 5, 5, Blue)>>)])}}

Styles == ColorStyles \cup TextStyles \cup EffectStyles

IsColor(o) == "r" \in DOMAIN o

InitStyle ==
    /\ production = FALSE
    /\ ServiceIdle
    /\ ExtractIdle
    /\ passed \in Colors \cup Styles
    /\ localStorage = NoItem
    /\ now = 0
    /\ AppIdle

\* A call of a normalisation function with the object at hand returns value.
Normalizes(name, value) ==
    /\ called' = name
    /\ returned' = value
    /\ UNCHANGED <<production, imageVars, analysisVars, document, componentsApi,
                   storeVars, appVars, componentVars>>

CallRgbaToHex == IsColor(style) /\ Normalizes("rgbaToHex", RgbaToHex(style))

CallExtractColorValue ==
    ~IsColor(style) /\ Normalizes("extractColorValue", ExtractColorValue(style))

CallExtractTextValue ==
    ~IsColor(style) /\ Normalizes("extractTextValue", ExtractTextValue(style))

CallExtractEffectValue ==
    ~IsColor(style) /\ Normalizes("extractEffectValue", ExtractEffectValue(style))

NextStyle ==
    \/ CallRgbaToHex
    \/ CallExtractColorValue
    \/ CallExtractTextValue
    \/ CallExtractEffectValue

SpecStyle == InitStyle /\ [][NextStyle]_vars

(***************************************************************************)
(* The App component: connectWithCredentials, called by the form's connect *)
(* event and by the restore of a stored connection, and the subscriptions  *)
(* to the analyses it starts.  What an analysis emits is told apart by the *)
(* connection type and the credentials it was asked with.                  *)
(***************************************************************************)
\* Most calls of connectWithCredentials.
MaxConnects == 2

\* The connections the form may ask for: a Figma file with other
\* credentials than the stored ones, and an MCP server with the stored ones.
ConnectionRequests ==
    {[connectionType |-> TypeFigma, credentials |-> <<117>>],
     [connectionType |-> TypeMcp, credentials |-> <<116>>]}

\* The file names an analysis may report: "A" and a Cyrillic letter.
ConnectFileNames == {<<65>>, <<1044>>}

\* App's fields after construction; shown stands for pages, designTokens,
\* localStyles, components and artboards, which are assigned together.
NewApp ==
    [shown |-> Null, fileInfo |-> Null, isLoading |-> FALSE, error |-> Null,
     currentCredentials |-> Null, currentConnectionType |-> TypeFigma,
     isRestoringConnection |-> FALSE]

\* What localStorage holds when the application starts: nothing, or a
\* connection stored that day, if for an MCP server a valid one.
ConnectItems ==
    {NoItem} \cup {Item(EncryptData(JsonStringify(c)).value) :
                      c \in {f \in FreshConnections : f.connectionType = TypeFigma \/ f.isValid}}

InitConnect ==
    /\ production = FALSE
    /\ ServiceIdle
    /\ ExtractIdle
    /\ passed = <<>>
    /\ localStorage \in ConnectItems
    /\ now = StartTime
    /\ restore = "none"
    /\ storedConnection = <<>>
    /\ validation = NoValidation
    /\ snapshot = NoItem
    /\ app = NewApp
    /\ subscriptions = <<>>
    /\ view = <<>>

\* What the App's handlers leave alone.
serviceVars == <<production, imageVars, analysisVars, extractVars, passed, validation, snapshot>>

\* ngOnInit, attemptConnectionRestore: up to the subscription to the
\* validation call.
AttemptConnectionRestore ==
    /\ restore = "none"
    /\ LET has == HasValidStoredConnection(localStorage, now)
           read == GetStoredConnection(has.item)
       IN  IF has.value /\ ~read.connection.isNull
           THEN /\ restore' = "validating"
                /\ storedConnection' = read.connection.value
                /\ localStorage' = read.item
                /\ app' = [app EXCEPT !.isRestoringConnection = TRUE,
                                      !.currentConnectionType =
                                          read.connection.value.connectionType]
           ELSE /\ restore' = "idle"
                /\ localStorage' = has.item
                /\ UNCHANGED <<storedConnection, app>>
    /\ UNCHANGED <<serviceVars, now, subscriptions, view>>

\* The subscription to an analysis observable, with the file name it emitted.
AnalysisSubscription(connectionType, credentials, isRestore) ==
    [kind |-> "analysis", connectionType |-> connectionType, credentials |-> credentials,
     isRestore |-> isRestore, st |-> "pending", emitted |-> <<>>]

\* connectWithCredentials: the fields it sets, and the subscription.
ConnectWithCredentials(connectionType, credentials, isRestore) ==
    /\ app' = [app EXCEPT !.currentCredentials = Some(credentials),
                          !.currentConnectionType = connectionType,
                          !.isLoading = TRUE,
                          !.error = Null]
    /\ subscriptions' =
           Append(subscriptions, AnalysisSubscription(connectionType, credentials, isRestore))

\* The validation call emitted: restoreConnectionData, which connects with
\* the stored connection as a restore.
ValidationEmits ==
    /\ restore = "validating"
    /\ restore' = "analysing"
    /\ ConnectWithCredentials(storedConnection.connectionType,
                              storedConnection.credentials, TRUE)
    /\ UNCHANGED <<serviceVars, now, localStorage, storedConnection, view>>

\* The validation call failed, which the MCP service's may: the stored
\* connection is marked invalid.
ValidationErrors ==
    /\ restore = "validating"
    /\ storedConnection.connectionType = TypeMcp
    /\ restore' = "invalid"
    /\ localStorage' = UpdateConnectionValidity(localStorage, now, FALSE)
    /\ app' = [app EXCEPT !.isRestoringConnection = FALSE]
    /\ UNCHANGED <<serviceVars, now, storedConnection, subscriptions, view>>

\* onConnect: the form's connect event.
OnConnect ==
    /\ restore # "none"
    /\ Len(subscriptions) < MaxConnects
    /\ \E connectionRequest \in ConnectionRequests :
          ConnectWithCredentials(connectionRequest.connectionType,
                                 connectionRequest.credentials, FALSE)
    /\ UNCHANGED <<serviceVars, now, localStorage, restore, storedConnection, view>>

\* Mutant: the connection is stored as invalid.
CreatedConnection_Invalid(s, fileInfo) ==
    [CreateStoredConnection(s.connectionType, s.credentials, fileInfo, now)
        EXCEPT !.isValid = FALSE]

\* The connection the next handler creates for its subscription.
CreatedConnection(s, fileInfo) ==
    CreateStoredConnection(s.connectionType, s.credentials, fileInfo, now)

\* The next handler of connectWithCredentials: an analysis emitted its data.
AnalysisEmits ==
    \E i \in DOMAIN subscriptions, name \in ConnectFileNames :
        LET s == subscriptions[i]
        IN  /\ s.kind = "analysis" /\ s.st = "pending"
            /\ app' = [app EXCEPT
                          !.shown = Some([connectionType |-> s.connectionType,
                                          credentials |-> s.credentials]),
                          !.fileInfo = Some(name),
                          !.isLoading = FALSE,
                          !.isRestoringConnection = FALSE]
            /\ localStorage' = StoreConnection(localStorage, CreatedConnection(s, name))
            /\ subscriptions' = [subscriptions EXCEPT ![i].st = "next", ![i].emitted = name]
            /\ UNCHANGED <<serviceVars, now, restore, storedConnection, view>>

\* The error handler of connectWithCredentials: an analysis failed.
AnalysisFails ==
    \E i \in DOMAIN subscriptions :
        LET s == subscriptions[i]
        IN  /\ s.kind = "analysis" /\ s.st = "pending"
            /\ app' = [app EXCEPT !.error = Some(s.credentials),
                                  !.isLoading = FALSE,
                                  !.isRestoringConnection = FALSE]
            /\ localStorage' = IF s.isRestore
                               THEN UpdateConnectionValidity(localStorage, now, FALSE)
                               ELSE localStorage
            /\ subscriptions' = [subscriptions EXCEPT ![i].st = "error"]
            /\ UNCHANGED <<serviceVars, now, restore, storedConnection, view>>

\* A day passes, once: enough to tell the lastConnected of a connection
\* stored before from that of one stored after.
DayPasses ==
    /\ now = StartTime
    /\ now' = now + MsPerDay
    /\ UNCHANGED <<serviceVars, localStorage, appVars, componentVars>>

NextConnect ==
    \/ AttemptConnectionRestore
    \/ ValidationEmits
    \/ ValidationErrors
    \/ OnConnect
    \/ AnalysisEmits
    \/ AnalysisFails
    \/ DayPasses

SpecConnect == InitConnect /\ [][NextConnect]_vars

(***************************************************************************)
(* The results view: FigmaResults' page navigation and                     *)
(* App.onFetchPageArtboards, once a connect has succeeded.  The templates  *)
(* that decide which controls are visible are not part of the source, so   *)
(* every handler may be called whenever the view exists.                   *)
(***************************************************************************)
\* Most fetchPageArtboards subscriptions of a behaviour.
MaxClicks == 2

\* The tabs selectTab is called with.
Tabs == {"pages", "tokens", "components", "sync"}

\* The analysed files: two pages, of which the first or the second has
\* frames with a bounding box among its children, or both have.
ResultsDocuments ==
    {Node(<<"0", ":", "0">>, "DOCUMENT", FALSE,
          [i \in 1..Len(shapes) |-> PageOf(i, shapes[i])]) :
        shapes \in {<<[kind |-> "frames", n |-> 1], [kind |-> "mixed", n |-> 10]>>,
                    <<[kind |-> "mixed", n |-> 10], [kind |-> "frames", n |-> 0]>>}}

\* FigmaResults' navigation fields after construction.
NewFigmaResults ==
    [selectedTab |-> "pages", selectedPage |-> Null, pageArtboards |-> <<>>,
     isLoadingArtboards |-> FALSE]

\* App after the analysis of a connect emitted: its data are shown and the
\* connection is stored.
ConnectedApp(connectionType, credentials, name) ==
    [NewApp EXCEPT !.shown = Some([connectionType |-> connectionType,
                                   credentials |-> credentials]),
                   !.fileInfo = Some(name),
                   !.currentCredentials = Some(credentials),
                   !.currentConnectionType = connectionType]

InitResults ==
    /\ production = FALSE
    /\ ServiceIdle
    /\ document \in ResultsDocuments
    /\ componentsApi = NoData
    /\ called = "none"
    /\ returned = <<>>
    /\ passed = <<>>
    /\ now = StartTime
    /\ restore = "idle"
    /\ storedConnection = <<>>
    /\ validation = NoValidation
    /\ snapshot = NoItem
    /\ subscriptions = <<>>
    /\ view = NewFigmaResults
    /\ \E c \in ConnectionRequests :
          /\ app = ConnectedApp(c.connectionType, c.credentials, <<65>>)
          /\ localStorage =
                 StoreConnection(NoItem,
                                 CreateStoredConnection(c.connectionType, c.credentials,
                                                        <<65>>, StartTime))

\* What the results view's handlers leave alone.
resultsFrame == <<serviceVars, localStorage, now, restore, storedConnection, app>>

\* selectTab
SelectTab ==
    /\ \E tab \in Tabs :
          view' = IF tab # "pages"
                  THEN [view EXCEPT !.selectedTab = tab,
                                    !.selectedPage = Null,
                                    !.pageArtboards = <<>>]
                  ELSE [view EXCEPT !.selectedTab = tab]
    /\ UNCHANGED <<resultsFrame, subscriptions>>

\* The subscription to a fetchPageArtboards observable, with what it emitted.
ArtboardsSubscription(pageId) ==
    [kind |-> "artboards", pageId |-> pageId, st |-> "pending", emitted |-> <<>>]

\* App.onFetchPageArtboards, run by the fetchPageArtboards event while the
\* view is as onPageClick left it.
OnFetchPageArtboards(pageId, shown) ==
    IF app.currentCredentials.isNull
    THEN view' = shown /\ UNCHANGED subscriptions
    ELSE IF app.currentConnectionType = TypeFigma
    THEN /\ view' = [shown EXCEPT !.isLoadingArtboards = TRUE]
         /\ subscriptions' = Append(subscriptions, ArtboardsSubscription(pageId))
    ELSE /\ view' = [shown EXCEPT !.isLoadingArtboards = FALSE]
         /\ UNCHANGED subscriptions

\* onPageClick, with the handler of the event it emits.
OnPageClick ==
    /\ Len(subscriptions) < MaxClicks
    /\ \E p \in DOMAIN ExtractPages(document) :
          LET page == ExtractPages(document)[p]
          IN  OnFetchPageArtboards(page.id,
                                   [view EXCEPT !.selectedPage = Some(page),
                                                !.isLoadingArtboards = TRUE])
    /\ UNCHANGED resultsFrame

\* backToPages
BackToPages ==
    /\ view' = [view EXCEPT !.selectedPage = Null,
                            !.pageArtboards = <<>>,
                            !.isLoadingArtboards = FALSE]
    /\ UNCHANGED <<resultsFrame, subscriptions>>

\* Mutant: the loading state is left as it is.
SetPageArtboards_KeepsLoading(artboards) ==
    view' = [view EXCEPT !.pageArtboards = artboards]

\* setPageArtboards
SetPageArtboards(artboards) ==
    view' = [view EXCEPT !.pageArtboards = artboards, !.isLoadingArtboards = FALSE]

\* The next handler of onFetchPageArtboards: a fetchPageArtboards observable
\* emitted.  It catches its errors, so the error handler never runs.
ArtboardsArrive ==
    \E i \in DOMAIN subscriptions, o \in FetchOutcomes :
        LET s == subscriptions[i]
            artboards == FetchPageArtboards(document, s.pageId, o.fileFails, FileIdLenShort,
                                            o.failing, o.unrendered).emitted
        IN  /\ s.kind = "artboards" /\ s.st = "pending"
            /\ SetPageArtboards(artboards)
            /\ subscriptions' = [subscriptions EXCEPT ![i].st = "next",
                                                      ![i].emitted = artboards]
            /\ UNCHANGED resultsFrame

NextResults ==
    \/ SelectTab
    \/ OnPageClick
    \/ BackToPages
    \/ ArtboardsArrive

SpecResults == InitResults /\ [][NextResults]_vars

(***************************************************************************)
(* C11                                                                     *)
(***************************************************************************)
RECURSIVE Outline(_)
RECURSIVE OutlineAll(_)
\* A node and its descendants, depth first, parents before children, each
\* with its id, its type and whether it has a bounding box.
Outline(node) ==
    <<[id |-> node.id, type |-> node.type, bbox |-> node.bbox]>>
    \o OutlineAll(ChildrenOf(node))

OutlineAll(nodes) ==
    IF nodes = <<>> THEN <<>>
    ELSE IF Len(nodes) = 1 THEN Outline(nodes[1])
    ELSE OutlineAll(FirstHalf(nodes)) \o OutlineAll(SecondHalf(nodes))

\* The nodes below the document root, depth first.
PageNodes == OutlineAll(ChildrenOf(document))

IdsOf(nodes) == [i \in DOMAIN nodes |-> nodes[i].id]

IsBoxedFrameOrInstance(n) == n.type \in {"FRAME", "INSTANCE"} /\ n.bbox

\* The ids of the FRAME and INSTANCE nodes with a bounding box, depth first.
BoxedFrameOrInstanceIds == IdsOf(SelectSeq(PageNodes, IsBoxedFrameOrInstance))

\* C11: the list of frame IDs findAllFrames collects never has more than 200
\* entries; for a tree with at most 200 FRAME/INSTANCE nodes with a bounding
\* box it is all of them in depth-first order, and for a larger tree it is
\* the first 200 of them.
C11_FrameLimit ==
    called = "findAllFrames" =>
        LET all == BoxedFrameOrInstanceIds
        IN  /\ Len(returned) <= 200
            /\ Len(all) <= 200 => returned = all
            /\ Len(all) > 200 => returned = SubSeq(all, 1, 200)

\* findAllFrames was given a tree with more than 200 such nodes, some of
\* them nested, and returned 200 IDs.
C11_Witness ==
    /\ called = "findAllFrames"
    /\ Len(BoxedFrameOrInstanceIds) > 200
    /\ Len(returned) = 200
    /\ \E i \in DOMAIN returned : \E j \in DOMAIN returned[i] : returned[i][j] = ";"

(***************************************************************************)
(* C12                                                                     *)
(***************************************************************************)
IsFrame(n) == n.type = "FRAME"

IsBoxedFrame(n) == n.type = "FRAME" /\ n.bbox

\* C12: in a document with unique node IDs every FRAME node with a bounding
\* box appears exactly once in the artboard list that extractArtboards and
\* extractAllArtboards return, and no FRAME node without one appears in it:
\* the entries of the list that are FRAME nodes are the FRAME nodes with a
\* bounding box, each once.
C12_ArtboardsOnce ==
    called \in {"extractArtboards", "extractAllArtboards"} =>
        LET nodes == PageNodes
            frames == IdsOf(SelectSeq(nodes, IsFrame))
            boxed == IdsOf(SelectSeq(nodes, IsBoxedFrame))
            frameSet == {frames[i] : i \in DOMAIN frames}
            OfFrame(id) == id \in frameSet
        IN  NoDuplicates(IdsOf(nodes)) =>
                /\ SelectSeq(IdsOf(returned), OfFrame) = boxed
                /\ NoDuplicates(boxed)

\* extractAllArtboards was given a document with nested frames with and
\* without a bounding box and returned them with INSTANCE nodes, one entry
\* with its image.
C12_Witness ==
    /\ called = "extractAllArtboards"
    /\ \E i \in DOMAIN PageNodes : IsFrame(PageNodes[i]) /\ ~IsBoxedFrame(PageNodes[i])
    /\ \E i \in DOMAIN returned : \E j \in DOMAIN returned[i].id : returned[i].id[j] = ";"
    /\ \E i \in DOMAIN returned : returned[i].imageUrl # NoThumbnail

(***************************************************************************)
(* C13                                                                     *)
(***************************************************************************)
IsComponentNode(n) == n.type \in {"COMPONENT", "COMPONENT_SET"}

\* The keys the endpoint listed, and the ids of the component nodes of the
\* document, depth first.
EndpointKeys == IF componentsApi.isNull THEN <<>> ELSE componentsApi.keys

TreeComponentIds == IdsOf(SelectSeq(Outline(document), IsComponentNode))

KeysOf(components) == [i \in DOMAIN components |-> components[i].key]

\* C13: in the merged component list the endpoint's components come first,
\* as the endpoint listed them; the tree-discovered components follow, and
\* one whose key is already listed is not added, so the list holds one
\* entry per key, the endpoint's when the endpoint listed the key.
C13_MergeByKey ==
    called \in {"extractComponents", "fetchComponents"} =>
        LET listed == {EndpointKeys[i] : i \in DOMAIN EndpointKeys}
            NotListed(id) == id \notin listed
            n == Len(EndpointKeys)
        IN  /\ NoDuplicates(KeysOf(returned))
            /\ Len(returned) >= n
            /\ KeysOf(SubSeq(returned, 1, n)) = EndpointKeys
            /\ \A i \in DOMAIN returned :
                  returned[i].from = (IF i <= n THEN "api" ELSE "tree")
            /\ KeysOf(SubSeq(returned, n + 1, Len(returned)))
                  = KeepFirst(SelectSeq(TreeComponentIds, NotListed))

\* The endpoint listed a key that is also the id of a COMPONENT node of the
\* document; the merged list has that key once, from the endpoint, and also
\* holds tree-discovered components.
C13_Witness ==
    /\ called = "extractComponents"
    /\ \E i \in DOMAIN EndpointKeys : \E j \in DOMAIN TreeComponentIds :
          /\ EndpointKeys[i] = TreeComponentIds[j]
          /\ \E k \in DOMAIN returned :
                returned[k].key = EndpointKeys[i] /\ returned[k].from = "api"
    /\ \E k \in DOMAIN returned : returned[k].from = "tree"

(***************************************************************************)
(* Stored connections, as the claims about the persistence service speak   *)
(* of them: the slot holds the record c when it holds the text that        *)
(* storing c writes.                                                       *)
(***************************************************************************)
ClockTimes == {StartTime + k * MsPerDay : k \in 0..MaxTicks}

AllConnections ==
    Connections \cup
    {StoredConnection(t, <<116>>, f, ToDateString(time), v) :
        t \in {TypeFigma, TypeMcp}, f \in FileNames, time \in ClockTimes, v \in BOOLEAN}

Holds(item, c) == item.present /\ Value(item.value) = EncryptData(JsonStringify(c))

\* The records the slot holds (at most one).
StoredRecords == {c \in AllConnections : Holds(localStorage, c)}

\* Milliseconds from the record's lastConnected to the current time.
DaysAgo(c, days) ==
    /\ ~DateTime(c.lastConnected).nan
    /\ now - DateTime(c.lastConnected).ms = days * MsPerDay

(***************************************************************************)
(* C14  hasValidStoredConnection returns true if and only if a stored      *)
(* connection exists, its validity flag is true and its lastConnected is   *)
(* less than 7 days before the current time; a stored connection whose     *)
(* lastConnected is 8 days in the past reports false even with a true flag.*)
(***************************************************************************)
C14_ValidityRule ==
    called = "hasValidStoredConnection" =>
        LET records == StoredRecords
        IN  /\ returned =
                 (\E c \in records :
                     /\ c.isValid
                     /\ ~DateTime(c.lastConnected).nan
                     /\ now - DateTime(c.lastConnected).ms < 7 * MsPerDay)
            /\ \A c \in records : c.isValid /\ DaysAgo(c, 8) => returned = FALSE

\* The check has answered false for a record that is flagged valid and 8 days old.
C14_Witness ==
    /\ called = "hasValidStoredConnection"
    /\ returned = FALSE
    /\ \E c \in StoredRecords : c.isValid /\ DaysAgo(c, 8)

(***************************************************************************)
(* C15  When hasValidStoredConnection returns false for a parseable stored *)
(* connection (flag false or older than the retention window), the stored  *)
(* record is left unchanged: a following getStoredConnection returns the   *)
(* same record.                                                            *)
(***************************************************************************)
C15_FalseKeepsRecord ==
    [][called' = "hasValidStoredConnection" /\ returned' = FALSE =>
          \A c \in StoredRecords :
              /\ localStorage' = localStorage
              /\ GetStoredConnection(localStorage').connection = Some(c)]_vars

\* The check has answered false and the slot holds a record flagged invalid.
C15_Witness ==
    /\ called = "hasValidStoredConnection"
    /\ returned = FALSE
    /\ \E c \in StoredRecords : ~c.isValid

(***************************************************************************)
(* C16  For every StoredConnection c, storeConnection(c) followed by       *)
(* getStoredConnection() returns a record with the same connection kind,   *)
(* credentials, fileInfo, lastConnected and isValid; the store is          *)
(* single-slot: after storeConnection(a) then storeConnection(b) the read  *)
(* returns b and nothing of a.                                             *)
(*                                                                         *)
(* As stated, for every connection: a read that follows a store returns    *)
(* the record that was passed to the store.                                *)
(***************************************************************************)
C16_RoundTripAsStated ==
    [][called = "storeConnection" /\ called' = "getStoredConnection" =>
          returned' = Some(passed)]_vars

\* Every code unit of the connection's strings is a Latin-1 character.
Latin1(c) ==
    \A str \in {c.connectionType, c.credentials, c.fileInfo, c.lastConnected} :
        \A i \in DOMAIN str : str[i] <= 255

\* C16, for the connections btoa can encode: a read that follows a store of a
\* connection whose strings are Latin-1 returns the record that was stored.
C16_RoundTripLatin1 ==
    [][called = "storeConnection" /\ called' = "getStoredConnection" /\ Latin1(passed) =>
          returned' = Some(passed)]_vars

\* A record with the file name "e-acute" was read back; only a store wrote it.
C16_Witness ==
    /\ called = "getStoredConnection"
    /\ ~returned.isNull
    /\ returned.value.fileInfo = <<233>>

(***************************************************************************)
(* C17  When the stored connection data cannot be decoded or parsed,       *)
(* getStoredConnection returns null (it does not throw) and the storage    *)
(* slot is removed, so every later read also reports no stored connection  *)
(* until the next storeConnection.                                         *)
(***************************************************************************)
\* The slot holds a string that is the stored text of no connection.
Undecodable(item) == item.present /\ \A c \in AllConnections : ~Holds(item, c)

RestoreEnded == restore \in {"connected", "failed", "invalid"}

FlagIs(isValid) == StoredRecords # {} /\ \A c \in StoredRecords : c.isValid = isValid

SnapshotVersions == {v \in Versions : snapshot = Item(SnapshotText(v))}

RawError == fileReq.error

RawStatus == IF RawError.kind = "http" THEN RawError.status ELSE 0

NormalizedShape ==
    /\ DOMAIN analysisError = {"kind", "message", "status"}
    /\ analysisError.status = RawStatus

FixedMessages ==
    /\ analysisError.status = 401 => analysisError.message = MessageToken
    /\ analysisError.status = 403 => analysisError.message = MessageDenied
    /\ analysisError.status = 404 => analysisError.message = MessageNotFound
    /\ analysisError.status = 414 => analysisError.message = MessageUrlTooLong

RECURSIVE NodesWithId(_, _)
RECURSIVE NodesWithIdIn(_, _)
\* The nodes of a tree that carry the id, parents before children.
NodesWithId(node, id) ==
    (IF node.id = id THEN <<node>> ELSE <<>>) \o NodesWithIdIn(ChildrenOf(node), id)

NodesWithIdIn(nodes, id) ==
    IF nodes = <<>> THEN <<>>
    ELSE IF Len(nodes) = 1 THEN NodesWithId(nodes[1], id)
    ELSE NodesWithIdIn(FirstHalf(nodes), id) \o NodesWithIdIn(SecondHalf(nodes), id)

\* The boxed FRAME children of the node fetchPageArtboards was asked for.
PageFrames ==
    LET hits == NodesWithId(document, returned.pageId)
    IN  IF hits = <<>> THEN <<>> ELSE SelectSeq(ChildrenOf(hits[1]), IsBoxedFrame)

PageMissing ==
    LET hits == NodesWithId(document, returned.pageId)
    IN  hits = <<>> \/ ChildrenOf(hits[1]) = <<>>

\* Every emitted artboard carries the URL rendered for its id, or no URL.
ThumbnailsFromBatcher ==
    \A i \in DOMAIN returned.emitted :
        returned.emitted[i].thumbnail \in {Url(returned.emitted[i].id, 1), NoThumbnail}

\* C21 as stated: fetchPageArtboards returns exactly the direct children of
\* the node with id pageId that are FRAMEs with a bounding box, in sibling
\* order, each with the batcher's URL for its id or the empty string; when
\* the page is not found, has no children, or any request fails (the file
\* request or an image batch request), it emits the empty list, and it never
\* errors.
C21_PageArtboardsAsStated ==
    called = "fetchPageArtboards" =>
        /\ ~returned.errored
        /\ IF PageMissing \/ returned.fileFails \/ returned.failed # {}
           THEN returned.emitted = <<>>
           ELSE /\ IdsOf(returned.emitted) = IdsOf(PageFrames)
                /\ ThumbnailsFromBatcher

\* C21, corrected: the empty list is emitted when the page is not found, has
\* no children or the file request fails; a failed image batch request does
\* not empty the list, it leaves the artboards of that batch of 50 without a
\* thumbnail.  The observable never errors.
C21_PageArtboards ==
    called = "fetchPageArtboards" =>
        /\ ~returned.errored
        /\ IF PageMissing \/ returned.fileFails
           THEN returned.emitted = <<>>
           ELSE /\ IdsOf(returned.emitted) = IdsOf(PageFrames)
                /\ ThumbnailsFromBatcher
                /\ \A i \in DOMAIN returned.emitted :
                      ((i - 1) \div 50) + 1 \in returned.failed
                          => returned.emitted[i].thumbnail = NoThumbnail

\* fetchPageArtboards was asked for a page with frames while an image batch
\* request failed, and emitted the page's artboards, some with a thumbnail
\* and some without.
C21_Witness ==
    /\ called = "fetchPageArtboards"
    /\ returned.failed # {}
    /\ \E i \in DOMAIN returned.emitted : returned.emitted[i].thumbnail = NoThumbnail
    /\ \E i \in DOMAIN returned.emitted : returned.emitted[i].thumbnail # NoThumbnail
    /\ Len(PageFrames) < Len(ChildrenOf(NodesWithId(document, returned.pageId)[1]))

(***************************************************************************)
(* C22                                                                     *)
(***************************************************************************)
IsCanvas(n) == n.type = "CANVAS"

\* The nodes directly below the document root.
TopNodes == ChildrenOf(document)

\* C22: the extraction functions walk the tree depth first, parent before
\* children, siblings in their order: the artboards of extractArtboards and
\* extractAllArtboards and the components of extractComponentsFromNodes are
\* the matching nodes in pre-order of the document tree; the pages of
\* extractPages are exactly the direct children of the document root whose
\* type is CANVAS (the type the specification calls CANVAS/PAGE), so a CANVAS
\* deeper in the tree is not a page; a node without a children field has no
\* descendants in any of them, and each call returns a list.
C22_PreOrder ==
    /\ called = "extractArtboards" =>
          IdsOf(returned) = IdsOf(SelectSeq(Outline(document), IsBoxedFrame))
    /\ called = "extractAllArtboards" =>
          IdsOf(returned) = IdsOf(SelectSeq(PageNodes, IsBoxedFrameOrInstance))
    /\ called = "extractComponentsFromNodes" =>
          KeysOf(returned) = TreeComponentIds
    /\ called = "extractPages" =>
          /\ IdsOf(returned) = IdsOf(SelectSeq(TopNodes, IsCanvas))
          /\ \A i \in DOMAIN returned :
                \E k \in DOMAIN TopNodes : TopNodes[k].id = returned[i].id
    /\ called \in {"extractArtboards", "extractAllArtboards",
                   "extractComponentsFromNodes", "extractPages"} =>
          DOMAIN returned = 1..Len(returned)

\* extractComponentsFromNodes walked a document in which a COMPONENT_SET
\* holds COMPONENTs that have no children field, and returned the set
\* before its components; the document also has a CANVAS that is not a
\* child of the root.
C22_Witness ==
    /\ called = "extractComponentsFromNodes"
    /\ \E i \in DOMAIN returned :
          /\ i + 2 \in DOMAIN returned
          /\ returned[i + 1].id = returned[i].id \o <<";", "1">>
          /\ returned[i + 2].id = returned[i].id \o <<";", "2">>
    /\ Len(SelectSeq(PageNodes, IsCanvas)) > Len(SelectSeq(TopNodes, IsCanvas))
    /\ \E i \in DOMAIN TopNodes : \E j \in DOMAIN TopNodes[i].children :
          \E k \in DOMAIN TopNodes[i].children[j].children :
              ~HasChildren(TopNodes[i].children[j].children[k])

(***************************************************************************)
(* C23                                                                     *)
(***************************************************************************)
\* The integer nearest to channel * 255, the upper one of two that are
\* equally near, for a channel of c ChannelUnit-ths.
Nearest255(c) ==
    CHOOSE n \in 0..255 :
        /\ 2 * (n * ChannelUnit - c * 255) <= ChannelUnit
        /\ 2 * (c * 255 - n * ChannelUnit) < ChannelUnit

\* Two lowercase hexadecimal digits for a number below 256.
HexPair(n) == HexDigits[(n \div 16) + 1] \o HexDigits[(n % 16) + 1]

\* C23: rgbaToHex maps every colour with channels in [0,1] to the
\* 7-character string '#rrggbb' of lowercase, zero-padded hex digits, each
\* pair being round(channel * 255); the alpha channel does not influence the
\* result, and {r: 1, g: 0, b: 0, a: 1} gives '#ff0000'.
C23_HexColor ==
    called = "rgbaToHex" =>
        /\ Len(returned) = 7
        /\ returned = "#" \o HexPair(Nearest255(style.r)) \o HexPair(Nearest255(style.g))
                          \o HexPair(Nearest255(style.b))
        /\ \A a \in 0..ChannelUnit : RgbaToHex([style EXCEPT !.a = a]) = returned
        /\ style = Color(ChannelUnit, 0, 0, ChannelUnit) => returned = "#ff0000"

\* rgbaToHex was given opaque red and returned '#ff0000'.
C23_Witness ==
    /\ called = "rgbaToHex"
    /\ style = Color(ChannelUnit, 0, 0, ChannelUnit)
    /\ returned = "#ff0000"

(***************************************************************************)
(* C24                                                                     *)
(***************************************************************************)
\* The canonical typography string.
CanonicalText(family, size, weight, lineHeight) ==
    "font-family: \"" \o family \o "\"; font-size: " \o NumberToString(size)
    \o "px; font-weight: " \o NumberToString(weight) \o "; line-height: " \o lineHeight \o ";"

\* The canonical string of an object's font properties, with the defaults
\* for the ones it lacks.
CanonicalOf(o) ==
    CanonicalText(IF TruthyString(o.fontFamily) THEN o.fontFamily.value ELSE "Arial",
                  IF TruthyNumber(o.fontSize) THEN o.fontSize.value ELSE 16,
                  IF TruthyNumber(o.fontWeight) THEN o.fontWeight.value ELSE 400,
                  IF TruthyNumber(o.lineHeightPx)
                  THEN NumberToString(o.lineHeightPx.value) \o "px" ELSE "normal")

\* The places of a style where font properties are looked for, in the
\* order of the code: the style itself, its `style`, its `typeStyle`.
FontPlaces ==
    <<style>> \o (IF style.style.isNull THEN <<>> ELSE <<style.style.value>>)
              \o (IF style.typeStyle.isNull THEN <<>> ELSE <<style.typeStyle.value>>)

\* The places that have a family, a size or a weight.
UsableFontPlaces == SelectSeq(FontPlaces, HasFont)

\* C24 as stated: extractTextValue always produces the canonical form
\* 'font-family: "<family>"; font-size: <px>px; font-weight: <weight>;
\* line-height: <px|normal>;' with the defaults Arial, 16, 400 and normal for
\* each absent field, also when family, size and weight are all absent.
C24_CanonicalTextAsStated ==
    called = "extractTextValue" =>
        IF UsableFontPlaces = <<>>
        THEN returned = CanonicalText("Arial", 16, 400, "normal")
        ELSE \E i \in DOMAIN UsableFontPlaces : returned = CanonicalOf(UsableFontPlaces[i])

\* C24, corrected: when some place of the style has a family, a size or a
\* weight, extractTextValue produces the canonical form for the first such
\* place, with the defaults Arial, 16, 400 and normal for each field that is
\* absent (or empty or zero); when none has, it returns the shorter string
\* 'font-family: Arial; font-size: 16px;', which is not of that form.
C24_CanonicalText ==
    called = "extractTextValue" =>
        IF UsableFontPlaces = <<>>
        THEN returned = "font-family: Arial; font-size: 16px;"
        ELSE returned = CanonicalOf(UsableFontPlaces[1])

\* extractTextValue was given a style with a line height but no family,
\* size or weight anywhere, and returned the short fallback.
C24_Witness ==
    /\ called = "extractTextValue"
    /\ TruthyNumber(style.lineHeightPx)
    /\ UsableFontPlaces = <<>>
    /\ returned = "font-family: Arial; font-size: 16px;"

(***************************************************************************)
(* C25                                                                     *)
(***************************************************************************)
\* The values of a list of optional values that are there, in order.
Present(options) ==
    LET There(o) == ~o.isNull
        kept == SelectSeq(options, There)
    IN  [i \in DOMAIN kept |-> kept[i].value]

\* The object under `style`, one without properties when there is none.
UnderStyle == IF style.style.isNull THEN EmptyNested ELSE style.style.value

\* What each shape of the style yields, for each normalisation: the direct
\* properties, and the ones nested under `style`, `typeStyle`, `paints` or
\* `effectStyle`.
DirectValues ==
    CASE called = "extractColorValue" ->
            LET color == IF style.color.isNull THEN Null ELSE style.color
            IN  [i \in 1..Len(Present(<<FirstSolid(style.fills), color>>)) |->
                    RgbaToHex(Present(<<FirstSolid(style.fills), color>>)[i])]
      [] called = "extractTextValue" ->
            IF HasFont(style) THEN <<CanonicalOf(style)>> ELSE <<>>
      [] called = "extractEffectValue" -> Present(<<FirstShadow(style.effects)>>)

NestedValues ==
    CASE called = "extractColorValue" ->
            LET colors == Present(<<FirstSolid(UnderStyle.fills), FirstSolid(style.paints)>>)
            IN  [i \in DOMAIN colors |-> RgbaToHex(colors[i])]
      [] called = "extractTextValue" ->
            SubSeq([i \in DOMAIN UsableFontPlaces |-> CanonicalOf(UsableFontPlaces[i])],
                   Len(DirectValues) + 1, Len(UsableFontPlaces))
      [] called = "extractEffectValue" ->
            LET alternative == IF style.effectStyle.isNull THEN Null
                               ELSE FirstShadow(style.effectStyle.value.effects)
            IN  Present(<<FirstShadow(UnderStyle.effects), alternative>>)

Fallback ==
    CASE called = "extractColorValue" -> "#000000"
      [] called = "extractTextValue" -> "font-family: Arial; font-size: 16px;"
      [] called = "extractEffectValue" -> "box-shadow: 0 2px 4px rgba(0,0,0,0.1);"

StyleCalled == called \in {"extractColorValue", "extractTextValue", "extractEffectValue"}

\* C25 as stated: the shapes are tried most nested first: for a style with
\* usable values both in a nested shape (under `style`, `typeStyle` or
\* `paints`) and as direct properties the nested values determine the
\* result, and the default is returned only when no shape yields a value.
C25_PriorityAsStated ==
    StyleCalled =>
        IF NestedValues # <<>> THEN returned = NestedValues[1]
        ELSE IF DirectValues # <<>> THEN returned = DirectValues[1]
        ELSE returned = Fallback

\* C25, corrected: the shapes are tried in a fixed order, direct properties
\* first: fills, color, style.fills, paints for a colour; the style's own
\* font properties, style, typeStyle for typography; effects, style.effects,
\* effectStyle.effects for a shadow.  The first shape that yields a value
\* determines the result, so direct values win over nested ones, and the
\* default is returned exactly when no shape yields a value.
C25_Priority ==
    StyleCalled =>
        LET values == DirectValues \o NestedValues
        IN  /\ values # <<>> => returned = values[1]
            /\ values = <<>> <=> returned = Fallback

\* extractColorValue was given a style with a SOLID first fill and another
\* SOLID fill nested under `style`, and returned the colour of the direct one.
C25_Witness ==
    /\ called = "extractColorValue"
    /\ ~FirstSolid(style.fills).isNull
    /\ Len(NestedValues) = 2
    /\ returned = DirectValues[1]
    /\ returned # NestedValues[1]

(***************************************************************************)
(* C26                                                                     *)
(***************************************************************************)
\* A paint list gives no colour: it is missing or empty, or its first paint
\* is not SOLID or has no colour.
NoColorIn(list) ==
    \/ list.isNull
    \/ list.value = <<>>
    \/ list.value[1].type # "SOLID"
    \/ list.value[1].color.isNull

\* An effect list holds no DROP_SHADOW: it is missing, empty or of other effects.
NoShadowIn(list) ==
    list.isNull \/ \A i \in DOMAIN list.value : list.value[i].type # "DROP_SHADOW"

NoFontIn(o) == ~TruthyString(o.fontFamily) /\ ~TruthyNumber(o.fontSize) /\ ~TruthyNumber(o.fontWeight)

\* The style has no recognizable colour, font or effect fields.
Unrecognizable ==
    CASE called = "extractColorValue" ->
            /\ NoColorIn(style.fills) /\ style.color.isNull
            /\ NoColorIn(UnderStyle.fills) /\ NoColorIn(style.paints)
      [] called = "extractTextValue" ->
            /\ NoFontIn(style) /\ NoFontIn(UnderStyle)
            /\ style.typeStyle.isNull \/ NoFontIn(style.typeStyle.value)
      [] called = "extractEffectValue" ->
            /\ NoShadowIn(style.effects) /\ NoShadowIn(UnderStyle.effects)
            /\ style.effectStyle.isNull \/ NoShadowIn(style.effectStyle.value.effects)

StoredIn(item) == GetStoredConnection(item).connection

Stored == StoredIn(localStorage)

\* In this step the handler `st` of subscription i runs.
Settles(i, st) ==
    /\ subscriptions[i].st = "pending"
    /\ subscriptions'[i].st = st

\* The stored connection is the one created for subscription s.
StoredFor(stored, s) ==
    /\ ~stored.isNull
    /\ stored.value.connectionType = s.connectionType
    /\ stored.value.credentials = s.credentials
    /\ stored.value.isValid

\* A failed connect's effect on the stored connection: none, or for a
\* restore the validity flag and lastConnected of the record, if there is one.
FailedConnectEffect(i) ==
    IF ~subscriptions[i].isRestore THEN localStorage' = localStorage
    ELSE IF Stored.isNull THEN StoredIn(localStorage').isNull
    ELSE StoredIn(localStorage') = Some([Stored.value EXCEPT !.isValid = FALSE,
                                             !.lastConnected = ToDateString(now)])

\* A valid record is written only in a step in which an analysis succeeds.
WrittenOnSuccess ==
    (StoredIn(localStorage') # Stored /\ ~StoredIn(localStorage').isNull /\ StoredIn(localStorage').value.isValid)
        => \E i \in DOMAIN subscriptions : Settles(i, "next")

\* C27 as stated: a StoredConnection is written only after an analysis
\* succeeds; after a successful connect the slot holds the credentials and
\* the connection kind used for that connect, with isValid = true; after a
\* failed connect that was no restore the stored connection is what it was;
\* after a failed restore connect only the validity flag and lastConnected
\* of the existing record change.
C27_StoredAfterConnectAsStated ==
    [][subscriptions' # subscriptions =>
          /\ WrittenOnSuccess
          /\ \A i \in DOMAIN subscriptions :
                /\ Settles(i, "next") => StoredFor(StoredIn(localStorage'), subscriptions[i])
                /\ Settles(i, "error") => FailedConnectEffect(i)]_vars

\* Every code unit of a file name is a Latin-1 character.
Latin1Name(name) == \A k \in DOMAIN name : name[k] <= 255

\* C27 for analyses whose file name btoa can encode: as stated; and after a
\* successful connect to a file with another name the slot is what it was.
C27_StoredAfterConnect ==
    [][subscriptions' # subscriptions =>
          /\ WrittenOnSuccess
          /\ \A i \in DOMAIN subscriptions :
                /\ Settles(i, "next") =>
                      IF Latin1Name(app'.fileInfo.value)
                      THEN StoredFor(StoredIn(localStorage'), subscriptions[i])
                      ELSE localStorage' = localStorage
                /\ Settles(i, "error") => FailedConnectEffect(i)]_vars

\* A connect with other credentials than the stored ones has succeeded for
\* a file with a Cyrillic name, and is shown; the slot still holds the
\* connection stored before.
C27_Witness ==
    /\ \A i \in DOMAIN subscriptions : subscriptions[i].st = "next"
    /\ ~app.shown.isNull
    /\ app.shown.value.credentials = <<117>>
    /\ app.fileInfo = Some(<<1044>>)
    /\ ~Stored.isNull
    /\ Stored.value.credentials = <<116>>

(***************************************************************************)
(* C28                                                                     *)
(***************************************************************************)
\* The record's lastConnected is a date at least the retention window ago.
Expired(c) ==
    /\ ~DateTime(c.lastConnected).nan
    /\ now - DateTime(c.lastConnected).ms >= 7 * MsPerDay

DataOf(s) == Some([connectionType |-> s.connectionType, credentials |-> s.credentials])

InFlight(i) == subscriptions[i].st = "pending"

\* Two analyses were started and both have emitted, files whose names the
\* persistence service can store.
BothEmitted ==
    /\ Len(subscriptions) = 2
    /\ \A i \in 1..2 : subscriptions[i].st = "next" /\ Latin1Name(subscriptions[i].emitted)

\* C29 as stated: after two connects whose analyses have both settled, the
\* data shown and the stored connection are those of the connect issued
\* last, which currentCredentials names, whatever the order in which the
\* analyses answered; and isLoading is false only when no analysis is still
\* in flight.
C29_LastConnectWinsAsStated ==
    /\ BothEmitted =>
          /\ app.shown = DataOf(subscriptions[2])
          /\ app.currentCredentials = Some(subscriptions[2].credentials)
          /\ StoredFor(Stored, subscriptions[2])
    /\ ~app.isLoading => \A i \in DOMAIN subscriptions : ~InFlight(i)

\* What the code does: the analysis that emits shows its data and stores
\* its connection and ends the loading state, whichever connect it belongs
\* to and whatever else is in flight; currentCredentials stay those of the
\* connect issued last.
C29_LastResponseWins ==
    [][\A i \in DOMAIN subscriptions :
          Settles(i, "next") =>
              /\ app'.shown = DataOf(subscriptions[i])
              /\ ~app'.isLoading
              /\ app'.currentCredentials = app.currentCredentials
              /\ app.currentCredentials = Some(subscriptions[Len(subscriptions)].credentials)
              /\ Latin1Name(subscriptions'[i].emitted) =>
                    StoredFor(StoredIn(localStorage'), subscriptions[i])]_vars

\* Two connects with different credentials were issued and both analyses
\* have emitted, the first one last: the data shown and the stored
\* connection are those of the first connect, currentCredentials those of
\* the second.
C29_Witness ==
    /\ BothEmitted
    /\ subscriptions[1].credentials # subscriptions[2].credentials
    /\ app.shown = DataOf(subscriptions[1])
    /\ StoredFor(Stored, subscriptions[1])
    /\ app.currentCredentials = Some(subscriptions[2].credentials)


(***************************************************************************)
(* C30                                                                     *)
(***************************************************************************)
\* The values fetchPageArtboards may emit for the page with this id.
ArtboardsOfPage(pageId) ==
    {FetchPageArtboards(document, pageId, o.fileFails, FileIdLenShort,
                        o.failing, o.unrendered).emitted : o \in FetchOutcomes}

\* The artboards shown were emitted for another page than the selected one.
ShownForOtherPage ==
    /\ ~view.selectedPage.isNull
    /\ view.pageArtboards # <<>>
    /\ view.pageArtboards \notin ArtboardsOfPage(view.selectedPage.value.id)

\* C30 as stated: whenever pageArtboards is non-empty a page is selected and
\* pageArtboards holds the artboards of that page; a late response for
\* another page is never shown, nor one that arrives when no page is selected.
C30_SelectedPageArtboardsAsStated ==
    view.pageArtboards # <<>> =>
        /\ ~view.selectedPage.isNull
        /\ view.pageArtboards \in ArtboardsOfPage(view.selectedPage.value.id)

\* C30: what the code does instead.  Whenever a fetchPageArtboards
\* observable emits, setPageArtboards shows what it emitted for the page it
\* was asked for and ends the loading state, and leaves selectedPage and
\* selectedTab as they are, whichever page is selected by then, if any.
C30_LastArrivalShown ==
    [][\A i \in DOMAIN subscriptions :
          (Settles(i, "next") /\ subscriptions[i].kind = "artboards") =>
              /\ view'.pageArtboards = subscriptions'[i].emitted
              /\ view'.pageArtboards \in ArtboardsOfPage(subscriptions[i].pageId)
              /\ ~view'.isLoadingArtboards
              /\ view'.selectedPage = view.selectedPage
              /\ view'.selectedTab = view.selectedTab]_vars

\* A page was clicked and left before its artboards arrived: they are
\* shown although no page is selected.
C30_Witness ==
    /\ Len(subscriptions) = 1
    /\ subscriptions[1].st = "next"
    /\ view.selectedPage.isNull
    /\ view.pageArtboards # <<>>
    /\ view.pageArtboards = subscriptions[1].emitted

=============================================================================
